---- MODULE Spec2Model ----
(***************************************************************************)
(* Model of the LibSerialize binary deserializer of emallson/profiling2    *)
(* (site/wasm/crates/serde-libserialize/src/lib.rs).                       *)
(*                                                                         *)
(* The deserializer is a nom parser over a byte slice whose input type     *)
(* (ParserState) carries a shared handle to two back-reference tables.     *)
(* Every parser function of the source is an operator here that takes the  *)
(* parser state ps = [pos, state, evs] and returns an IResult record       *)
(*    [k |-> "Ok" | "Error" | "Failure" | "Panic", ps, v, errs].           *)
(* "Error" / "Failure" are nom::Err::Error / nom::Err::Failure, "Panic" is *)
(* a Rust panic unwinding through the parser.  ps.state is the Rc<State>   *)
(* the source shares between all copies of the input, so it is threaded    *)
(* through failed alternatives as well (it is never rolled back).          *)
(* ps.evs is a history (ghost) field: the list of objects decoded so far.  *)
(***************************************************************************)
EXTENDS Integers, Sequences, FiniteSets, TLC

VARIABLES
    input,            \* the byte slice handed to deserialize
    pc,               \* "call": deserialize about to run; "returned": it has returned
    result,           \* what deserialize returned (or that it panicked)
    string_refs,      \* State.string_refs.by_index as the last decode left it
    table_refs,       \* State.table_refs.by_index as the last decode left it
    evs,              \* history of the last decode: objects decoded, references resolved
    started,          \* history: the State the last decode started from
    history,          \* history: <<input, result>> of every call that returned
    overflow_checks,  \* build profile: TRUE = debug (arithmetic overflow panics), FALSE = release (wraps)
    recording         \* the data of the Recording a caller holds, when it holds one

vars == <<input, pc, result, string_refs, table_refs, evs, started, history, overflow_checks, recording>>

-----------------------------------------------------------------------------
(* Bounds of the model *)

\* chunks after the version byte in the streams over CoreChunks
MaxChunks == 4
\* chunks after the version byte in the streams over FloatChunks
MaxFloatChunks == 4
\* chunks after the version byte in the streams over KeyChunks
MaxKeyChunks == 3
\* payload bytes after an integer tag in the streams of IntInputs
MaxIntPayload == 7
\* chunks after a version byte other than 1
MaxVersionChunks == 1
\* calls of deserialize in one behaviour of RepeatSpec
\* bytes of entries after a small Mixed header, and after a large one
MaxMixedEntries == 9
MaxLargeMixedEntries == 6
\* length of the printable strings built from PrintChars
MaxPrintLen == 5
\* length of the texts built from StringChars
MaxStringLen == 5
\* entries in a table literal
MaxEntries == 3
\* objects in a stream that is then extended
MaxTrailChunks == 2
\* requests for the parsed form of one Recording
MaxRequests == 3
MaxCalls == 3

(* Program constants *)
DESERIALIZATION_VERSION == 2

-----------------------------------------------------------------------------
(* Bits and bytes *)

Byte == 0..255

\* the element of a one-element set.  Only({e : x \in {v}}) is e with x bound to the
\* value of v, as a let binding of the source holds the value its parser returned
Only(S) == CHOOSE x \in S : TRUE

Pow2(n) == 2 ^ n

\* bit i of byte b, Lsb0 order (BitArray<u8, Lsb0>)
Bit(b, i) == (b \div Pow2(i)) % 2

\* byte[lo..hi].load(): bits lo..hi-1 of b as an unsigned number, bit lo least significant
Load(b, lo, hi) == (b \div Pow2(lo)) % Pow2(hi - lo)

RECURSIVE BE(_)
\* big-endian unsigned value of at most 3 bytes (be_u8, be_u16, be_u24)
BE(bs) == IF bs = <<>> THEN 0 ELSE BE(SubSeq(bs, 1, Len(bs) - 1)) * 256 + bs[Len(bs)]

RECURSIVE Strip(_)
\* a magnitude without its leading zero bytes
Strip(bs) == IF bs # <<>> /\ bs[1] = 0 THEN Strip(Tail(bs)) ELSE bs

RECURSIVE ToBytes(_)
\* the big-endian base-256 digits of a natural number, no leading zero
ToBytes(n) == IF n = 0 THEN <<>> ELSE ToBytes(n \div 256) \o <<n % 256>>

-----------------------------------------------------------------------------
(* serde_savedvariables::Value and Table *)
(* IntV holds an i64 as sign and magnitude (big-endian bytes, no leading    *)
(* zero) so that 32-bit payloads keep their full width.  Float holds the   *)
(* 8 bytes of the binary64, String the bytes of the str.                   *)

Nil == [t |-> "Nil"]
Bool(b) == [t |-> "Bool", b |-> b]
IntV(neg, mag) == Only({[t |-> "Int", neg |-> (neg /\ m # <<>>), mag |-> m] : m \in {Strip(mag)}})
Float(bits) == [t |-> "Float", f |-> bits]
String(s) == [t |-> "String", s |-> s]
TableV(tb) == [t |-> "Table", tb |-> tb]

Named(m) == [k |-> "Named", m |-> m]
Array(a) == [k |-> "Array", a |-> a]
FloatArray(fa) == [k |-> "FloatArray", fa |-> fa]
MixedTable(a, m) == [k |-> "MixedTable", a |-> a, m |-> m]

\* Value::Int(n) for a number n the model can hold
IntOf(n) ==
    Only({IF m < 0 THEN IntV(TRUE, ToBytes(0 - m)) ELSE IntV(FALSE, ToBytes(m)) : m \in {n}})

\* HashMap::new() and HashMap::insert
EmptyMap == [x \in {} |-> Nil]
Insert(m, key, v) == (key :> v) @@ m

-----------------------------------------------------------------------------
(* Conversions *)

UTF8Cont(b) == b >= 128 /\ b <= 191

RECURSIVE from_utf8(_)
\* core::str::from_utf8(bytes).is_ok(): well-formed UTF-8 (Unicode table 3-7)
from_utf8(s) ==
    IF s = <<>> THEN TRUE
    ELSE LET b == s[1]
             n == Len(s)
         IN  IF b <= 127 THEN from_utf8(Tail(s))
             ELSE IF b >= 194 /\ b <= 223
                  THEN n >= 2 /\ UTF8Cont(s[2]) /\ from_utf8(SubSeq(s, 3, n))
             ELSE IF b >= 224 /\ b <= 239
                  THEN /\ n >= 3
                       /\ IF b = 224 THEN s[2] >= 160 /\ s[2] <= 191
                          ELSE IF b = 237 THEN s[2] >= 128 /\ s[2] <= 159
                          ELSE UTF8Cont(s[2])
                       /\ UTF8Cont(s[3])
                       /\ from_utf8(SubSeq(s, 4, n))
             ELSE IF b >= 240 /\ b <= 244
                  THEN /\ n >= 4
                       /\ IF b = 240 THEN s[2] >= 144 /\ s[2] <= 191
                          ELSE IF b = 244 THEN s[2] >= 128 /\ s[2] <= 143
                          ELSE UTF8Cont(s[2])
                       /\ UTF8Cont(s[3])
                       /\ UTF8Cont(s[4])
                       /\ from_utf8(SubSeq(s, 5, n))
             ELSE FALSE

RECURSIVE DivMod10(_, _)
\* long division of a big-endian magnitude by 10, carrying remainder r in
DivMod10(mag, r) ==
    IF mag = <<>> THEN [q |-> <<>>, r |-> r]
    ELSE Only({[q |-> <<cur \div 10>> \o rest.q, r |-> rest.r] :
                 cur \in {r * 256 + mag[1]}, rest \in {DivMod10(Tail(mag), (r * 256 + mag[1]) % 10)}})

RECURSIVE Digits(_)
\* the decimal digits (ASCII) of a non-zero magnitude
Digits(mag) ==
    Only({IF m = <<>> THEN <<>>
          ELSE Only({Only({ds \o <<48 + d.r>> : ds \in {Digits(d.q)}}) : d \in {DivMod10(m, 0)}}) :
          m \in {Strip(mag)}})

\* i64::to_string()
int_to_string(v) ==
    IF v.mag = <<>> THEN <<48>>
    ELSE (IF v.neg THEN <<45>> ELSE <<>>) \o Digits(v.mag)

\* bool::to_string()
bool_to_string(b) == IF b THEN <<116, 114, 117, 101>> ELSE <<102, 97, 108, 115, 101>>

\* floor(log2 n) for n >= 1
RECURSIVE Log2(_)
Log2(n) == IF n <= 1 THEN 0 ELSE 1 + Log2(n \div 2)

\* the binary64 of an integer 0 <= n < 2^20, as 8 big-endian bytes
F64OfNat(n) ==
    IF n = 0 THEN <<0, 0, 0, 0, 0, 0, 0, 0>>
    ELSE LET e == Log2(n)
             m20 == (n - Pow2(e)) * Pow2(20 - e)
             ex == 1023 + e
         IN  <<ex \div 16, (ex % 16) * 16 + m20 \div 65536, (m20 \div 256) % 256, m20 % 256,
               0, 0, 0, 0>>

\* unary minus on an f64: the sign bit flips
F64Neg(bits) == [bits EXCEPT ![1] = IF @ >= 128 THEN @ - 128 ELSE @ + 128]

\* f64::to_string().  Exact for zeros, infinities, NaN and the integers below 2^21;
\* any other binary64 prints as its shortest round-trip decimal, kept here as the
\* token <<256>> \o bits (256 is no byte, so the token equals no decoded string).
f64_to_string(bits) ==
    LET neg == bits[1] >= 128
        ex == (bits[1] % 128) * 16 + bits[2] \div 16
        m20 == (bits[2] % 16) * 65536 + bits[3] * 256 + bits[4]
        low == <<bits[5], bits[6], bits[7], bits[8]>>
        sign == IF neg THEN <<45>> ELSE <<>>
        e == ex - 1023
    IN  IF ex = 2047
        THEN IF m20 = 0 /\ low = <<0, 0, 0, 0>> THEN sign \o <<105, 110, 102>> ELSE <<78, 97, 78>>
        ELSE IF ex = 0 /\ m20 = 0 /\ low = <<0, 0, 0, 0>> THEN sign \o <<48>>
        ELSE IF e >= 0 /\ e <= 20 /\ low = <<0, 0, 0, 0>> /\ m20 % Pow2(20 - e) = 0
             THEN sign \o Digits(ToBytes(Pow2(e) + m20 \div Pow2(20 - e)))
        ELSE <<256>> \o bits

RECURSIVE DecimalValue(_)
\* the number a string of ASCII digits denotes (at most 6 digits in the model)
DecimalValue(s) == IF s = <<>> THEN 0 ELSE DecimalValue(SubSeq(s, 1, Len(s) - 1)) * 10 + (s[Len(s)] - 48)

\* str::parse::<f64>().is_ok().  A string of ASCII digits is accepted and the empty
\* string and any string with a byte outside the float-literal alphabet is rejected;
\* the streams of the model hold no other byte of that alphabet (+ - . e E and the
\* letters of inf, infinity, nan), so the remaining literal forms never arise.
parse_f64_ok(s) == s # <<>> /\ \A i \in DOMAIN s : s[i] >= 48 /\ s[i] <= 57

-----------------------------------------------------------------------------
(* State, ParserState and IResult *)

\* State::new(): both reference tables empty
State_new == [string_refs |-> <<>>, table_refs |-> <<>>]

\* fault variant of ParserState_new: the State of the previous decode is kept
ParserState_kept ==
    [pos |-> 0, state |-> [string_refs |-> string_refs, table_refs |-> table_refs], evs |-> <<>>]

\* ParserState::new(input): the whole input, a fresh State
ParserState_new == [pos |-> 0, state |-> State_new, evs |-> <<>>]

\* fault variant of add_table_ref: the new table goes to the front
add_table_ref_front(st, value) == [st EXCEPT !.table_refs = <<value>> \o @]

\* State::add_str_ref / State::add_table_ref: by_index.push(value)
add_str_ref(st, value) == [st EXCEPT !.string_refs = Append(@, value)]
add_table_ref(st, value) == [st EXCEPT !.table_refs = Append(@, value)]

\* fault variant of get_ref: by_index.get(key), the index not shifted to 0-based
get_ref_unshifted(by_index, key) ==
    IF key < Len(by_index) THEN [k |-> "Some", v |-> by_index[key + 1]] ELSE [k |-> "None"]

\* by_index.get(key - 1).cloned() on either table.  key is a usize: for key = 0 the
\* subtraction panics when the build checks overflow and wraps to usize::MAX when it
\* does not, an index no Vec has.
get_ref(by_index, key) ==
    IF key = 0
    THEN IF overflow_checks THEN [k |-> "Panic"] ELSE [k |-> "None"]
    ELSE IF key - 1 < Len(by_index) THEN [k |-> "Some", v |-> by_index[key]] ELSE [k |-> "None"]

get_str_ref(st, key) == get_ref(st.string_refs, key)
get_table_ref(st, key) == get_ref(st.table_refs, key)

Ok(ps, v) == [k |-> "Ok", ps |-> ps, v |-> v, errs |-> <<>>]
Err(kind, ps, errs) == [k |-> kind, ps |-> ps, v |-> Nil, errs |-> errs]
Panic(ps, msg) == [k |-> "Panic", ps |-> ps, v |-> Nil, errs |-> <<[at |-> ps.pos, kind |-> msg]>>]

\* VerboseError::from_error_kind / from_external_error (the external error is dropped),
\* and VerboseError::append / add_context
ErrorAt(ps, kind) == <<[at |-> ps.pos, kind |-> kind]>>
AppendError(ps, kind, errs) == Append(errs, [at |-> ps.pos, kind |-> kind])

\* fault variant of Rewind: the next alternative goes on where the attempt stopped
Rewind_resume(ps, r) == r.ps

\* the input a parser restarts from after a failed attempt r: the position goes back,
\* the shared State (and the history) stay as the attempt left them
Rewind(ps, r) == [r.ps EXCEPT !.pos = ps.pos]

\* fault variant of cut: the error stays recoverable
cut_recoverable(r) == r

\* nom::combinator::cut: Error becomes Failure
cut(r) == IF r.k = "Error" THEN [r EXCEPT !.k = "Failure"] ELSE r

\* nom::error::context
context(name, ps, r) ==
    IF r.k \in {"Error", "Failure"} THEN [r EXCEPT !.errs = AppendError(ps, name, @)] ELSE r

\* history: an event is recorded when r succeeded
Record(r, ev) == IF r.k = "Ok" THEN [r EXCEPT !.ps.evs = Append(@, ev)] ELSE r

\* history: the String and Table values built, in the order their parsers returned
\* start and end are the offsets the parser of the object's content began and ended at
DecodedString(ps, r) ==
    Record(r, [op |-> "str", val |-> r.v, start |-> ps.pos, end |-> r.ps.pos])
DecodedTable(ps, r) ==
    Record(r, [op |-> "tbl", val |-> r.v, start |-> ps.pos, end |-> r.ps.pos])

\* take(count): the next count bytes
take(count, ps) ==
    IF ps.pos + count <= Len(input)
    THEN Ok([ps EXCEPT !.pos = @ + count], SubSeq(input, ps.pos + 1, ps.pos + count))
    ELSE Err("Error", ps, ErrorAt(ps, "Eof"))

byte(ps) ==
    Only({IF r.k = "Ok" THEN Ok(r.ps, r.v[1]) ELSE r : r \in {take(1, ps)}})

\* fault variant of version_byte: versions below DESERIALIZATION_VERSION only
version_byte_below(ps) ==
    Only({IF r.k # "Ok" THEN r
          ELSE IF r.v < DESERIALIZATION_VERSION THEN Ok(r.ps, TRUE)
          ELSE Err("Error", ps, ErrorAt(ps, "Verify")) : r \in {byte(ps)}})

version_byte(ps) ==
    Only({IF r.k # "Ok" THEN r
          ELSE IF r.v <= DESERIALIZATION_VERSION THEN Ok(r.ps, TRUE)
          ELSE Err("Error", ps, ErrorAt(ps, "Verify")) : r \in {byte(ps)}})

\* Succeeds if the low len bits of the next byte are type_tag (bit 0 first)
tagged_byte(type_tag, len, ps) ==
    Only({IF r.k # "Ok" THEN r
          ELSE IF \A i \in 0..(len - 1) : Bit(r.v, i) = type_tag[i + 1] THEN r
          ELSE Err("Error", ps, ErrorAt(ps, "Verify")) : r \in {byte(ps)}})

\* fault variant of deserialize_medint: the two parts of the magnitude swapped
deserialize_medint_swapped(ps) ==
    Only({IF l.k # "Ok" THEN l
          ELSE Only({IF h.k # "Ok" THEN h
                     ELSE Ok(h.ps, IntOf((256 * Load(l.v, 4, 8) + h.v)
                                         * (IF Bit(l.v, 3) = 1 THEN -1 ELSE 1))) :
                     h \in {byte(l.ps)}}) :
          l \in {tagged_byte(<<0, 0, 1>>, 3, ps)}})

\* the 16 bits of deserialize_medint's result, all zero at first:
\* result[4..12] |= high; result[0..4] |= &low[4..8]
medint_bits(low, high) ==
    [i \in 0..15 |-> IF i < 4 THEN Bit(low, i + 4) ELSE IF i < 12 THEN Bit(high, i - 4) ELSE 0]

RECURSIVE load_u16(_, _)
\* result.load::<u16>() from bit i on: bit i weighs 2^i (Lsb0, little-endian target)
load_u16(bits, i) == IF i > 15 THEN 0 ELSE bits[i] * Pow2(i) + load_u16(bits, i + 1)

\* Format: LLLL S100 HHHH HHHH
deserialize_medint(ps) ==
    Only({IF l.k # "Ok" THEN l
          ELSE Only({IF h.k # "Ok" THEN h
                     ELSE Only({Ok(h.ps, IntOf(load_u16(bits, 0)
                                               * (IF Bit(l.v, 3) = 1 THEN -1 ELSE 1))) :
                                bits \in {medint_bits(l.v, h.v)}}) :
                     h \in {byte(l.ps)}}) :
          l \in {tagged_byte(<<0, 0, 1>>, 3, ps)}})

\* Format: NNNN NNN1
deserialize_ushort(ps) ==
    Only({IF r.k # "Ok" THEN r ELSE Ok(r.ps, IntOf(Load(r.v, 1, 8))) :
          r \in {tagged_byte(<<1>>, 1, ps)}})

\* fault variant of mixed_count: the two counts in the other order
mixed_count_swapped(c) == <<Load(c % 256, 0, 2), Load(c % 256, 2, 4)>>

\* Format: AAKK
mixed_count(c) == <<Load(c % 256, 2, 4), Load(c % 256, 0, 2)>>

\* fault variant of small_object_header: the low three bits must be 010
small_object_header_three(ps) ==
    Only({IF r.k # "Ok" THEN r
          ELSE Ok(r.ps, [count |-> Load(r.v, 4, 8), type_tag |-> Load(r.v, 2, 4)]) :
          r \in {tagged_byte(<<0, 1, 0>>, 3, ps)}})

\* Format: CCCC TT10
small_object_header(ps) ==
    Only({IF r.k # "Ok" THEN r
          ELSE Ok(r.ps, [count |-> Load(r.v, 4, 8), type_tag |-> Load(r.v, 2, 4)]) :
          r \in {tagged_byte(<<0, 1>>, 2, ps)}})

\* Read a count-byte string
string(count, ps) ==
    Only({IF r.k # "Ok" THEN r
          ELSE IF from_utf8(r.v) THEN r
          ELSE Err("Error", ps, ErrorAt(ps, "MapRes")) : r \in {take(count, ps)}})

\* LargeObjectHeader::bytes, by tag number
bytes(tag) ==
    CASE tag \in {14, 17, 20, 26, 29, 10, 11} -> 1
      [] tag \in {15, 18, 21, 27, 30, 1, 2} -> 2
      [] tag \in {16, 19, 22, 28, 31, 3, 4} -> 3
      [] tag \in {5, 6} -> 4
      [] tag \in {7, 8} -> 7
      [] tag = 9 -> 8
      [] tag \in {0, 12, 13} -> 0
      [] tag = 23 -> 1
      [] tag = 24 -> 2
      [] tag = 25 -> 3

\* Format: TTTT T000
large_object_header(ps) ==
    Only({IF r.k # "Ok" THEN r ELSE Ok(r.ps, Load(r.v, 3, 8)) :
          r \in {tagged_byte(<<0, 0, 0>>, 3, ps)}})

\* int(bytes): the next `bytes` bytes, big-endian; only the widths 1, 2, 3, 4 and 8
\* have an arm, any other width is unimplemented!().  The value is the bytes read.
int(nbytes, ps) ==
    IF nbytes \in {1, 2, 3, 4, 8} THEN take(nbytes, ps)
    ELSE Panic(ps, "not a supported integer size")

float(ps) == take(8, ps)

float_str(count, ps) ==
    Only({IF r.k # "Ok" THEN r
          ELSE IF from_utf8(r.v) /\ parse_f64_ok(r.v) THEN Ok(r.ps, F64OfNat(DecimalValue(r.v)))
          ELSE Err("Error", ps, ErrorAt(ps, "MapRes")) : r \in {take(count, ps)}})

\* The float fast path: a Float large object or an Error, nothing else is touched
deserialize_float(ps) ==
    Only({IF h.k # "Ok" THEN h
          ELSE IF h.v = 9 THEN float(h.ps)
          ELSE Err("Error", ps, ErrorAt(ps, "Alt")) : h \in {large_object_header(ps)}})

RECURSIVE float_array_loop(_, _, _, _)
float_array_loop(n, entry_count, ps, vec) ==
    IF n = entry_count THEN Ok(ps, vec)
    ELSE Only({IF r.k = "Ok"
               THEN Only({float_array_loop(n + 1, entry_count, r.ps, v) : v \in {Append(vec, r.v)}})
               ELSE IF r.k = "Error" THEN Err("Error", r.ps, AppendError(ps, "ManyMN", r.errs))
               ELSE r : r \in {deserialize_float(ps)}})

\* fault variant of float_array: no float array of length 0
float_array_nonempty(entry_count, ps) ==
    IF entry_count = 0 THEN Err("Error", ps, ErrorAt(ps, "ManyMN"))
    ELSE Only({IF r.k = "Ok" THEN DecodedTable(ps, Ok(r.ps, TableV(FloatArray(r.v)))) ELSE r :
               r \in {float_array_loop(0, entry_count, ps, <<>>)}})

float_array(entry_count, ps) ==
    Only({IF r.k = "Ok" THEN DecodedTable(ps, Ok(r.ps, TableV(FloatArray(r.v)))) ELSE r :
          r \in {float_array_loop(0, entry_count, ps, <<>>)}})

\* store_table_ref / store_string_ref applied to the outcome r of the wrapped parser
store_table_ref(r) ==
    IF r.k = "Ok" /\ r.v.t = "Table"
    THEN [r EXCEPT !.ps.state = add_table_ref(@, r.v.tb)]
    ELSE r

\* fault variant of store_string_ref: an empty string is not stored
store_string_ref_nonempty(r) ==
    IF r.k = "Ok" /\ r.v.t = "String" /\ r.v.s # <<>>
    THEN [r EXCEPT !.ps.state = add_str_ref(@, r.v.s)]
    ELSE r

store_string_ref(r) ==
    IF r.k = "Ok" /\ r.v.t = "String"
    THEN [r EXCEPT !.ps.state = add_str_ref(@, r.v.s)]
    ELSE r

table_ref(key, ps) ==
    Only({CASE g.k = "Some" -> Ok(ps, TableV(g.v))
            [] g.k = "None" -> Err("Failure", ps, ErrorAt(ps, "MapOpt"))
            [] OTHER -> Panic(ps, "attempt to subtract with overflow") :
          g \in {get_table_ref(ps.state, key)}})

string_ref(key, ps) ==
    Only({CASE g.k = "Some" -> Ok(ps, String(g.v))
            [] g.k = "None" -> Err("Failure", ps, ErrorAt(ps, "MapOpt"))
            [] OTHER -> Panic(ps, "attempt to subtract with overflow") :
          g \in {get_str_ref(ps.state, key)}})

\* history: a back-reference at ps with index key had outcome r
Resolved(op, key, ps, r) ==
    [r EXCEPT !.ps.evs = Append(@, [op |-> op, key |-> key, hit |-> r.k = "Ok", val |-> r.v,
                                    before |-> ps.state, after |-> r.ps.state,
                                    start |-> ps.pos, end |-> ps.pos])]

-----------------------------------------------------------------------------
(* The object parsers *)

RECURSIVE any_object(_)
RECURSIVE array_loop(_, _, _, _)
RECURSIVE table_loop(_, _, _, _)

\* Read count objects into an array: many_m_n(count, count, any_object)
array(entry_count, ps) == array_loop(0, entry_count, ps, <<>>)

array_loop(n, entry_count, ps, res) ==
    IF n = entry_count THEN Ok(ps, res)
    ELSE Only({IF r.k = "Ok"
               THEN Only({array_loop(n + 1, entry_count, r.ps, v) : v \in {Append(res, r.v)}})
               ELSE IF r.k = "Error" THEN Err("Error", r.ps, AppendError(ps, "ManyMN", r.errs))
               ELSE r : r \in {any_object(ps)}})

\* fault variant of key_of: an Int key loses its sign
key_of_unsigned(v) ==
    CASE v.t = "String" -> v.s
      [] v.t = "Int" -> IF v.mag = <<>> THEN <<48>> ELSE Digits(v.mag)
      [] v.t = "Float" -> f64_to_string(v.f)
      [] v.t = "Bool" -> bool_to_string(v.b)
      [] v.t = "Nil" -> <<110, 105, 108>>

\* the closure of map_res in table(): the key a decoded value stands for
key_of(v) ==
    CASE v.t = "String" -> v.s
      [] v.t = "Int" -> int_to_string(v)
      [] v.t = "Float" -> f64_to_string(v.f)
      [] v.t = "Bool" -> bool_to_string(v.b)
      [] v.t = "Nil" -> <<110, 105, 108>>

\* context("found table in key location ...", map_res(any_object, key_of))
table_key(ps) ==
    Only({IF r.k # "Ok" THEN context("found table in key location in non-array table", ps, r)
          ELSE IF r.v.t = "Table"
          THEN context("found table in key location in non-array table", ps,
                       Err("Error", [r.ps EXCEPT !.evs = Append(@, [op |-> "key_table"])],
                           ErrorAt(ps, "MapRes")))
          ELSE Only({Ok([r.ps EXCEPT !.evs = Append(@, [op |-> "key", from |-> r.v, to |-> key])],
                        key) : key \in {key_of(r.v)}}) :
          r \in {any_object(ps)}})

\* Read count key/value pairs into a hashmap:
\* fold_many_m_n(count, count, pair(key, any_object), HashMap::new, insert)
table(entry_count, ps) == table_loop(0, entry_count, ps, EmptyMap)

table_loop(n, entry_count, ps, map) ==
    IF n = entry_count THEN Ok(ps, map)
    ELSE Only({Only({IF r.k = "Ok"
                     THEN Only({table_loop(n + 1, entry_count, r.ps, m) :
                                m \in {Insert(map, kr.v, r.v)}})
                     ELSE IF r.k = "Error"
                     THEN Err("Error", r.ps, AppendError(ps, "ManyMN", r.errs))
                     ELSE r :
                     r \in {IF kr.k = "Ok" THEN any_object(kr.ps) ELSE kr}}) :
               kr \in {table_key(ps)}})

\* Mixed table (array and keyed parts): tuple((array(array_count), table(keyed_count)))
mixed_table(counts, ps) ==
    Only({Only({IF t.k = "Ok" THEN DecodedTable(ps, Ok(t.ps, TableV(MixedTable(a.v, t.v)))) ELSE t :
                t \in {IF a.k = "Ok" THEN table(counts[2], a.ps) ELSE a}}) :
          a \in {array(counts[1], ps)}})

\* the second alternative of the array alt, its outcome g: map(.., Table::Array)
generic_array(ps, g) ==
    IF g.k = "Ok" THEN DecodedTable(ps, Ok(g.ps, TableV(Array(g.v))))
    ELSE IF g.k = "Error" THEN Err("Error", g.ps, AppendError(ps, "Alt", g.errs))
    ELSE g

\* alt((float_array(count), map(array(count), Table::Array))) at ps
array_object(entry_count, ps) ==
    Only({IF f.k # "Error" THEN f
          ELSE Only({generic_array(ps, g) :
                     g \in {Only({array(entry_count, p) : p \in {Rewind(ps, f)}})}}) :
          f \in {float_array(entry_count, ps)}})

named_object(entry_count, ps) ==
    Only({IF r.k = "Ok" THEN DecodedTable(ps, Ok(r.ps, TableV(Named(r.v)))) ELSE r :
          r \in {table(entry_count, ps)}})

string_object(count, ps) ==
    Only({IF r.k = "Ok" THEN DecodedString(ps, Ok(r.ps, String(r.v))) ELSE r :
          r \in {string(count, ps)}})

deserialize_small_object(ps) ==
    Only({IF h.k # "Ok" THEN h
          ELSE CASE h.v.type_tag = 0 ->
                      Only({store_string_ref(cut(r)) : r \in {string_object(h.v.count, h.ps)}})
                 [] h.v.type_tag = 2 ->
                      Only({store_table_ref(cut(r)) : r \in {array_object(h.v.count, h.ps)}})
                 [] h.v.type_tag = 1 ->
                      Only({store_table_ref(cut(r)) : r \in {named_object(h.v.count, h.ps)}})
                 [] h.v.type_tag = 3 ->
                      Only({store_table_ref(cut(r)) :
                            r \in {Only({mixed_table(c, h.ps) : c \in {mixed_count(h.v.count)}})}}) :
          h \in {small_object_header(ps)}})

\* flat_map(int(bytes), p): the count (or length, or index) read before p runs
counted(nbytes, ps) ==
    Only({IF c.k = "Ok" THEN Ok(c.ps, BE(c.v)) ELSE c : c \in {int(nbytes, ps)}})

large_int(neg, nbytes, rest) ==
    Only({IF r.k = "Ok" THEN Ok(r.ps, IntV(neg, r.v)) ELSE r : r \in {int(nbytes, rest)}})

large_string(nbytes, rest) ==
    Only({IF c.k = "Ok" THEN string_object(c.v, c.ps) ELSE c : c \in {counted(nbytes, rest)}})

large_table(nbytes, rest) ==
    Only({IF c.k = "Ok" THEN named_object(c.v, c.ps) ELSE c : c \in {counted(nbytes, rest)}})

\* alt((flat_map(int, float_array), map(flat_map(int, array), Table::Array))):
\* each alternative reads the count again
large_array(nbytes, rest) ==
    Only({Only({IF f.k # "Error" THEN f
                ELSE Only({Only({generic_array(rest, g) :
                                 g \in {IF c2.k = "Ok" THEN array(c2.v, c2.ps) ELSE c2}}) :
                           c2 \in {Only({counted(nbytes, p) : p \in {Rewind(rest, f)}})}}) :
                f \in {IF c.k = "Ok" THEN float_array(c.v, c.ps) ELSE c}}) :
          c \in {counted(nbytes, rest)}})

\* flat_map(tuple((int, int)), mixed_table)
large_mixed(nbytes, rest) ==
    Only({Only({IF kc.k = "Ok"
                THEN Only({mixed_table(c, kc.ps) : c \in {<<ac.v, kc.v>>}})
                ELSE kc :
                kc \in {IF ac.k = "Ok" THEN counted(nbytes, ac.ps) ELSE ac}}) :
          ac \in {counted(nbytes, rest)}})

large_float(rest) ==
    Only({IF r.k = "Ok" THEN Ok(r.ps, Float(r.v)) ELSE r : r \in {float(rest)}})

large_float_str(neg, nbytes, rest) ==
    Only({Only({IF r.k = "Ok" THEN Ok(r.ps, Float(IF neg THEN F64Neg(r.v) ELSE r.v)) ELSE r :
                r \in {IF c.k = "Ok" THEN float_str(c.v, c.ps) ELSE c}}) :
          c \in {counted(nbytes, rest)}})

large_table_ref(nbytes, rest) ==
    Only({IF c.k = "Ok"
          THEN Only({Resolved("tref", c.v, c.ps, r) : r \in {table_ref(c.v, c.ps)}})
          ELSE c : c \in {counted(nbytes, rest)}})

large_string_ref(nbytes, rest) ==
    Only({IF c.k = "Ok"
          THEN Only({Resolved("sref", c.v, c.ps, r) : r \in {string_ref(c.v, c.ps)}})
          ELSE c : c \in {counted(nbytes, rest)}})

\* the arm of deserialize_large_object for the header `tag`, the input after it `rest`
large_object(tag, rest) ==
    CASE tag = 0 -> Ok(rest, Nil)
      [] tag = 12 -> Ok(rest, Bool(TRUE))
      [] tag = 13 -> Ok(rest, Bool(FALSE))
      [] tag \in {1, 3, 5, 7} -> Only({cut(r) : r \in {large_int(FALSE, bytes(tag), rest)}})
      [] tag \in {2, 4, 6, 8} -> Only({cut(r) : r \in {large_int(TRUE, bytes(tag), rest)}})
      [] tag \in {14, 15, 16} ->
           Only({store_string_ref(cut(r)) : r \in {large_string(bytes(tag), rest)}})
      [] tag \in {17, 18, 19} ->
           Only({store_table_ref(cut(r)) : r \in {large_table(bytes(tag), rest)}})
      [] tag \in {20, 21, 22} ->
           Only({store_table_ref(cut(r)) : r \in {large_array(bytes(tag), rest)}})
      [] tag \in {23, 24, 25} ->
           Only({store_table_ref(cut(r)) : r \in {large_mixed(bytes(tag), rest)}})
      [] tag = 9 -> Only({cut(r) : r \in {large_float(rest)}})
      [] tag = 10 -> Only({cut(r) : r \in {large_float_str(FALSE, bytes(tag), rest)}})
      [] tag = 11 -> Only({cut(r) : r \in {large_float_str(TRUE, bytes(tag), rest)}})
      [] tag \in {29, 30, 31} -> Only({cut(r) : r \in {large_table_ref(bytes(tag), rest)}})
      [] tag \in {26, 27, 28} -> Only({cut(r) : r \in {large_string_ref(bytes(tag), rest)}})

deserialize_large_object(ps) ==
    Only({IF h.k # "Ok" THEN h ELSE large_object(h.v, h.ps) : h \in {large_object_header(ps)}})

\* alt of the four object parsers, each under its context
any_object(ps) ==
    Only({IF r1.k # "Error" THEN r1
     ELSE Only({Only({IF r2.k # "Error" THEN r2
      ELSE Only({Only({IF r3.k # "Error" THEN r3
       ELSE Only({Only({IF r4.k # "Error" THEN r4
                        ELSE context("no object type matched", ps,
                                     Err("Error", r4.ps, AppendError(ps, "Alt", r4.errs))) :
             r4 \in {Only({context("parsing large object", p4, r) :
                           r \in {deserialize_large_object(p4)}})}}) :
            p4 \in {Rewind(ps, r3)}}) :
           r3 \in {Only({context("parsing small object", p3, r) :
                         r \in {deserialize_small_object(p3)}})}}) :
          p3 \in {Rewind(ps, r2)}}) :
         r2 \in {Only({context("parsing packed u12", p2, r) :
                       r \in {deserialize_medint(p2)}})}}) :
        p2 \in {Rewind(ps, r1)}}) :
     r1 \in {Only({context("parsing packed u7", ps, r) : r \in {deserialize_ushort(ps)}})}})

\* fault variant of deserialize_internal: all of the input must be consumed
deserialize_internal_eof(ps) ==
    Only({IF v.k # "Ok" THEN v
          ELSE Only({IF r.k = "Ok" /\ r.ps.pos < Len(input)
                     THEN Err("Error", r.ps, ErrorAt(r.ps, "Eof"))
                     ELSE r : r \in {any_object(v.ps)}}) :
          v \in {version_byte(ps)}})

\* complete(preceded(version_byte, any_object))
deserialize_internal(ps) ==
    Only({IF v.k = "Ok" THEN any_object(v.ps) ELSE v : v \in {version_byte(ps)}})

\* deserialize(input): a fresh ParserState, then Ok(value) or Err(SerializeParseError)
\* whose repr lists "<kind> in byte <offset>" for every entry of the nom error; a panic
\* leaves through the caller.  The record also carries the State the decode ended with.
deserialize ==
    Only({[ret |-> CASE r.k = "Ok" -> [k |-> "Ok", v |-> r.v]
                     [] r.k = "Panic" -> [k |-> "Panic", msg |-> r.errs[1].kind]
                     [] OTHER -> [k |-> "Err", type |-> "SerializeParseError", repr |-> r.errs],
           state |-> r.ps.state,
           evs |-> r.ps.evs,
           started |-> start.state] :
          start \in {ParserState_new}, r \in {deserialize_internal(ParserState_new)}})

-----------------------------------------------------------------------------
(* The streams the model decodes *)

RECURSIVE Streams(_, _)
\* every concatenation of at most n chunks
Streams(chunks, n) ==
    IF n = 0 THEN {<<>>}
    ELSE UNION {S \cup {s \o c : s \in S, c \in chunks} : S \in {Streams(chunks, n - 1)}}

\* Nil, packed 0, "", [], a named table of one pair, an array of two, a small Mixed
\* of 1 + 1 entries, StringRef8, TableRef8 (0, 1 and 2 are also the indices they take)
CoreChunks == {<<0>>, <<1>>, <<2>>, <<10>>, <<22>>, <<42>>, <<94>>, <<208>>, <<232>>}

F64One == <<63, 240, 0, 0, 0, 0, 0, 0>>
F64Half == <<63, 224, 0, 0, 0, 0, 0, 0>>

\* a small array of 2, Array8 of 2, the floats 1.0 and 0.5, a bare Float tag,
\* packed 1, the float string "1"
FloatChunks ==
    {<<42>>, <<160, 2>>, <<72>> \o F64One, <<72>> \o F64Half, <<72>>, <<3>>, <<80, 1, 49>>}

\* a named table of one pair and the keys it may hold: Nil, packed 0 and 24, the
\* packed i12 -16, true, false, "1", 1.0, the I32 4294967295 and its negative
KeyChunks ==
    {<<22>>, <<0>>, <<1>>, <<49>>, <<12, 1>>, <<96>>, <<104>>, <<18, 49>>, <<72>> \o F64One,
     <<40, 255, 255, 255, 255>>, <<48, 255, 255, 255, 255>>}

IntBytes == {<<0>>, <<255>>}

CoreInputs == {<<1>> \o s : s \in Streams(CoreChunks, MaxChunks)}
FloatInputs == {<<1>> \o s : s \in Streams(FloatChunks, MaxFloatChunks)}
KeyInputs == {<<1>> \o s : s \in Streams(KeyChunks, MaxKeyChunks)}
IntInputs == {<<1, 8 * tag>> \o s : tag \in 1..8, s \in Streams(IntBytes, MaxIntPayload)}
VersionInputs ==
    {<<>>} \cup {<<v>> \o s : v \in {0, 2, 3, 255}, s \in Streams(CoreChunks, MaxVersionChunks)}

\* longer streams: arrays of three that store two strings (two tables) and resolve
\* a reference to the second, or to the first, or past the end
DeepInputs ==
    {<<1, 58, 2, 18, 49, 208, k>> : k \in 0..3} \cup {<<1, 58, 10, 6, 232, k>> : k \in 0..3}
    \cup {<<1, 58, 18, 49, 10, r, 1>> : r \in {208, 232}}

\* Mixed objects over the packed integers 0 and 1: every small Mixed length code, and
\* Mixed8/16/24 with array and keyed counts of 0..2, the entries cut off anywhere
MixedInputs ==
    {<<1, 16 * c + 14>> \o s : c \in 0..15, s \in Streams({<<1>>, <<3>>}, MaxMixedEntries)}
    \cup {<<1, 8 * tag>> \o [i \in 1..(2 * (tag - 22)) |->
                                IF i = tag - 22 THEN ac ELSE IF i = 2 * (tag - 22) THEN kc ELSE 0]
              \o s : tag \in 23..25, ac \in 0..2, kc \in 0..2,
                     s \in Streams({<<1>>, <<3>>}, MaxLargeMixedEntries)}

Inputs ==
    CoreInputs \cup FloatInputs \cup KeyInputs \cup IntInputs \cup VersionInputs \cup DeepInputs

\* every pair of bytes after the version byte
PackedInputs == {<<1, b0, b1>> : b0 \in Byte, b1 \in Byte}

\* the streams of the repeated calls: "", [], StringRef8 1, TableRef8 1, and an array
\* that stores a string and a table and resolves a reference to each
RepeatInputs ==
    {<<1, 2>>, <<1, 10>>, <<1, 208, 1>>, <<1, 232, 1>>, <<1, 18, 49>>,
     <<1, 42, 2, 208, 1>>, <<1, 42, 10, 232, 1>>, <<1, 42, 208, 1, 2>>}

-----------------------------------------------------------------------------
(* The state machine: a caller that hands byte slices to deserialize *)

\* no Recording is held
NoRecording == [t |-> "None"]


Idle(inp) ==
    /\ input = inp
    /\ pc = "call"
    /\ result = [k |-> "None"]
    /\ string_refs = <<>>
    /\ table_refs = <<>>
    /\ evs = <<>>
    /\ started = State_new
    /\ history = <<>>
    /\ overflow_checks \in BOOLEAN
    /\ recording = NoRecording

Init == \E inp \in Inputs : Idle(inp)

RepeatInit == \E inp \in RepeatInputs : Idle(inp)

PackedInit == \E inp \in PackedInputs : Idle(inp)

\* one call of deserialize(input), from entry to return (or panic)
Deserialize ==
    /\ pc = "call"
    /\ \E d \in {deserialize} :
           /\ result' = d.ret
           /\ string_refs' = d.state.string_refs
           /\ table_refs' = d.state.table_refs
           /\ evs' = d.evs
           /\ started' = d.started
           /\ history' = Append(history, [input |-> input, result |-> d.ret])
    /\ pc' = "returned"
    /\ UNCHANGED <<input, overflow_checks, recording>>

\* the caller hands over another slice
Call(inp) ==
    /\ pc = "returned"
    /\ Len(history) < MaxCalls
    /\ input' = inp
    /\ pc' = "call"
    /\ UNCHANGED <<result, string_refs, table_refs, evs, started, history, overflow_checks, recording>>

MixedInit == \E inp \in MixedInputs : Idle(inp)

Next == Deserialize

RepeatNext == Deserialize \/ \E inp \in RepeatInputs : Call(inp)

Spec == Init /\ [][Next]_vars

RepeatSpec == RepeatInit /\ [][RepeatNext]_vars

MixedSpec == MixedInit /\ [][Next]_vars

PackedSpec == PackedInit /\ [][Next]_vars

-----------------------------------------------------------------------------
(* Properties *)

Returned == pc = "returned"

\* the values of the events of one kind, in order
Vals(es, op) ==
    LET sel == SelectSeq(es, LAMBDA e : e.op = op) IN [i \in 1..Len(sel) |-> sel[i].val]

IsRef(e) == e.op \in {"sref", "tref"}

\* the table a back-reference event reads, as it was when the reference was parsed
RefTable(e) == IF e.op = "sref" THEN e.before.string_refs ELSE e.before.table_refs

\* the String or Table values built before event i of the decode
BuiltBefore(i) == Vals(SubSeq(evs, 1, i - 1), IF evs[i].op = "sref" THEN "str" ELSE "tbl")

InRange(e) == e.key >= 1 /\ e.key <= Len(RefTable(e))

\* C1: a string or table back-reference with index k, 1 <= k <= length of its table,
\* yields a value equal to the k-th String (Table) built so far in this decode, and
\* resolving it appends nothing to either table.
C1_BackRefYieldsEntry ==
    Returned =>
        \A i \in DOMAIN evs :
            (IsRef(evs[i]) /\ InRange(evs[i])) =>
                /\ evs[i].hit
                /\ evs[i].key <= Len(BuiltBefore(i))
                /\ evs[i].val = BuiltBefore(i)[evs[i].key]
                /\ evs[i].after = evs[i].before

\* C1 witness: a decode that returned a value after resolving a reference to the
\* second entry of a table holding two different entries
C1_Witness ==
    /\ Returned
    /\ result.k = "Ok"
    /\ \E i \in DOMAIN evs :
        /\ IsRef(evs[i]) /\ evs[i].hit /\ evs[i].key = 2
        /\ RefTable(evs[i])[1] # RefTable(evs[i])[2]

\* C2: a back-reference whose index k is 0 or beyond the length of its table makes
\* the decode return the error MissingRef(k).
C2_MissingRefReturned ==
    Returned =>
        \A i \in DOMAIN evs :
            (IsRef(evs[i]) /\ ~InRange(evs[i])) =>
                /\ result.k = "Err"
                /\ result.type = "MissingRef"
                /\ result.key = evs[i].key

\* C3: the reference tables are append-only and hold exactly the objects built: the
\* String table is the list of the String values built by this decode, the Table
\* table the list of the Table values built (any variant), each once and in the order
\* they were built, and what a table held when a back-reference was parsed is a prefix
\* of what it holds at the end.
C3_TablesAppendOnly ==
    Returned =>
        /\ string_refs = [i \in 1..Len(Vals(evs, "str")) |-> Vals(evs, "str")[i].s]
        /\ table_refs = [i \in 1..Len(Vals(evs, "tbl")) |-> Vals(evs, "tbl")[i].tb]
        /\ \A i \in DOMAIN evs :
            IsRef(evs[i]) =>
                /\ Len(evs[i].before.string_refs) <= Len(string_refs)
                /\ Len(evs[i].before.table_refs) <= Len(table_refs)
                /\ evs[i].before.string_refs
                     = SubSeq(string_refs, 1, Len(evs[i].before.string_refs))
                /\ evs[i].before.table_refs
                     = SubSeq(table_refs, 1, Len(evs[i].before.table_refs))

\* C3 witness: a successful decode that built a string in key position, a non-empty
\* string and tables of two variants
C3_Witness ==
    /\ Returned
    /\ result.k = "Ok"
    /\ Len(string_refs) >= 1
    /\ Len(table_refs) >= 2
    /\ \E i \in DOMAIN evs : evs[i].op = "key" /\ evs[i].from.t = "String"
    /\ \E i, j \in DOMAIN table_refs : table_refs[i].k # table_refs[j].k

\* C4: the reference tables are per call: every call of deserialize starts with both
\* tables empty, calls on the same bytes return equal results whatever was decoded in
\* between, and a back-reference resolves only to an object built earlier in the
\* same call.
C4_TablesPerDecode ==
    /\ Returned => started = State_new
    /\ \A i, j \in DOMAIN history :
        history[i].input = history[j].input => history[i].result = history[j].result
    /\ Returned =>
        \A i \in DOMAIN evs :
            (IsRef(evs[i]) /\ evs[i].hit) => evs[i].key <= Len(BuiltBefore(i))

\* C4 witness: StringRef8 1 decoded, then a stream that stores a string, then
\* StringRef8 1 again, which fails again
C4_Witness ==
    /\ Returned
    /\ Len(history) = 3
    /\ history[1].input = <<1, 208, 1>>
    /\ history[2].input = <<1, 18, 49>>
    /\ history[2].result.k = "Ok"
    /\ history[3].input = <<1, 208, 1>>
    /\ history[3].result.k = "Err"

ErrorOffsets == {result.repr[i].at : i \in DOMAIN result.repr}

\* C5 (amended): the first byte is a version byte.  For a first byte of 0, 1 or 2 the
\* decode goes on to the value: no error is located at byte 0, and a packed u7 that
\* follows is returned.  For a first byte above 2 the decode returns the parse error
\* of the failed verification at byte 0, which does not carry the byte seen, and
\* nothing was decoded.
C5_VersionByte ==
    (Returned /\ input # <<>>) =>
        IF input[1] <= 2
        THEN /\ result.k = "Err" => 0 \notin ErrorOffsets
             /\ (Len(input) >= 2 /\ input[2] % 2 = 1) =>
                    result = [k |-> "Ok", v |-> IntOf(input[2] \div 2)]
        ELSE /\ result = [k |-> "Err", type |-> "SerializeParseError",
                          repr |-> <<[at |-> 0, kind |-> "Verify"]>>]
             /\ evs = <<>>
             /\ string_refs = <<>>
             /\ table_refs = <<>>

\* C5 witness: a stream with version byte 255 and an object after it was rejected
C5_Witness ==
    /\ Returned
    /\ Len(input) >= 2
    /\ input[1] = 255
    /\ result.k = "Err"

\* C5 as stated: a first byte above 2 fails with UnsupportedVersion carrying the byte
C5_UnsupportedVersion ==
    (Returned /\ input # <<>> /\ input[1] > 2) =>
        /\ result.k = "Err"
        /\ result.type = "UnsupportedVersion"
        /\ result.saw = input[1]

RECURSIVE MulAdd(_, _)
\* 10 * mag + c on a big-endian magnitude
MulAdd(mag, c) ==
    IF mag = <<>> THEN (IF c = 0 THEN <<>> ELSE <<c>>)
    ELSE LET x == mag[Len(mag)] * 10 + c
         IN  MulAdd(SubSeq(mag, 1, Len(mag) - 1), x \div 256) \o <<x % 256>>

RECURSIVE FromDecimal(_)
\* the magnitude a string of ASCII digits denotes
FromDecimal(ds) ==
    IF ds = <<>> THEN <<>>
    ELSE Strip(MulAdd(FromDecimal(SubSeq(ds, 1, Len(ds) - 1)), ds[Len(ds)] - 48))

\* text is the decimal text of the Int value v: an optional '-', then digits without
\* a leading zero that denote the magnitude
IsDecimalOf(text, v) ==
    LET ds == IF v.neg THEN Tail(text) ELSE text
    IN  /\ text # <<>>
        /\ v.neg => text[1] = 45
        /\ ds # <<>>
        /\ \A i \in DOMAIN ds : ds[i] >= 48 /\ ds[i] <= 57
        /\ Len(ds) > 1 => ds[1] # 48
        /\ FromDecimal(ds) = v.mag

KeyEvents == {i \in DOMAIN evs : evs[i].op = "key"}

\* C6: each key of a Named table (or of the keyed part of a Mixed table) is decoded as
\* a value and coerced to a string: a String is used unchanged, an Int becomes its
\* decimal text, a Bool "true" or "false", Nil "nil"; and every key of every table a
\* successful decode built is one of the strings so obtained.
C6_KeysCoerced ==
    Returned =>
        /\ \A i \in KeyEvents :
            LET e == evs[i]
            IN  /\ e.from.t = "String" => e.to = e.from.s
                /\ e.from.t = "Int" => IsDecimalOf(e.to, e.from)
                /\ e.from.t = "Bool" =>
                      e.to = IF e.from.b THEN <<116, 114, 117, 101>>
                             ELSE <<102, 97, 108, 115, 101>>
                /\ e.from.t = "Nil" => e.to = <<110, 105, 108>>
        /\ result.k = "Ok" =>
            \A n \in DOMAIN table_refs :
                table_refs[n].k \in {"Named", "MixedTable"} =>
                    DOMAIN table_refs[n].m \subseteq {evs[i].to : i \in KeyEvents}

\* C6 witness: a successful decode of a table whose key was a negative Int
C6_Witness ==
    /\ Returned
    /\ result.k = "Ok"
    /\ \E i \in KeyEvents : evs[i].from.t = "Int" /\ evs[i].from.neg
    /\ \E n \in DOMAIN table_refs : table_refs[n].k = "Named" /\ DOMAIN table_refs[n].m # {}

\* C7: a table value in key position is fatal: the decode returns an error, nothing
\* is parsed after the key, and no alternative was tried on the way out (the error
\* records no Alt).
C7_TableKeyFatal ==
    Returned =>
        \A i \in DOMAIN evs :
            evs[i].op = "key_table" =>
                /\ result.k = "Err"
                /\ i = Len(evs)
                /\ \A n \in DOMAIN result.repr : result.repr[n].kind # "Alt"

\* C7 witness: a decode met a table in the key position of a Mixed table's keyed part
C7_Witness ==
    /\ Returned
    /\ Len(input) >= 2
    /\ input[2] = 94
    /\ \E i \in DOMAIN evs : evs[i].op = "key_table"

\* C8: packed integers, for every byte value.  A byte with bit 0 set decodes to
\* Int(byte >> 1), in 0..127.  A byte b0 whose low three bits are 100 followed by a byte
\* b1 decodes to Int(s * (16 * b1 + (b0 >> 4))), s = -1 if bit 3 of b0 is set and +1
\* otherwise, in -4095..4095; 01 24 4d gives 1234, 01 7c 1a gives -423, 01 0b gives 5.
C8_PackedInts ==
    (Returned /\ Len(input) = 3 /\ input[1] <= 2) =>
        LET b0 == input[2]
            b1 == input[3]
            s == IF (b0 \div 8) % 2 = 1 THEN -1 ELSE 1
            n == s * (16 * b1 + b0 \div 16)
        IN  /\ b0 % 2 = 1 =>
                /\ result = [k |-> "Ok", v |-> IntOf(b0 \div 2)]
                /\ b0 \div 2 \in 0..127
            /\ b0 % 8 = 4 =>
                /\ result = [k |-> "Ok", v |-> IntOf(n)]
                /\ n \in -4095..4095
            /\ input = <<1, 36, 77>> => result.v = IntOf(1234)
            /\ input = <<1, 124, 26>> => result.v = IntOf(-423)
            /\ (b0 = 11) => result.v = IntOf(5)

\* C8 witness: 01 7c 1a was decoded to Int(-423)
C8_Witness ==
    /\ Returned
    /\ input = <<1, 124, 26>>
    /\ result = [k |-> "Ok", v |-> [t |-> "Int", neg |-> TRUE, mag |-> <<1, 167>>]]

IntWidth(tag) == <<2, 2, 3, 3, 4, 4, 7, 7>>[tag]

\* C9: a large object with tag 1..8 followed by 2, 2, 3, 3, 4, 4, 7, 7 bytes decodes
\* to the Int of those bytes read big-endian, negated for the even tags; for every
\* such tag followed by enough bytes the decode returns the Int.
C9_LargeInts ==
    (Returned /\ Len(input) >= 2 /\ input[1] <= 2) =>
        \A tag \in 1..8 :
            (input[2] = 8 * tag /\ Len(input) >= 2 + IntWidth(tag)) =>
                result = [k |-> "Ok",
                          v |-> IntV(tag % 2 = 0, SubSeq(input, 3, 2 + IntWidth(tag)))]

\* the top-level object is an array: a small object of type 2, or Array8/16/24
TopIsSmallArray == Len(input) >= 2 /\ input[2] % 16 = 10
TopIsLargeArray ==
    /\ Len(input) >= 2
    /\ input[2] \in {160, 168, 176}
    /\ Len(input) >= 2 + bytes(input[2] \div 8)
\* where its elements start, and how many it has
TopStart == IF TopIsSmallArray THEN 2 ELSE 2 + bytes(input[2] \div 8)
TopCount == IF TopIsSmallArray THEN input[2] \div 16 ELSE BE(SubSeq(input, 3, TopStart))
\* every element is a Float large object: tag byte 72, then 8 bytes
TopAllFloat ==
    /\ Len(input) >= TopStart + 9 * TopCount
    /\ \A i \in 0..(TopCount - 1) : input[TopStart + 9 * i + 1] = 72
TopFloats ==
    [i \in 1..TopCount |-> SubSeq(input, TopStart + 9 * (i - 1) + 2, TopStart + 9 * i)]
\* the elements as the generic array path alone decodes them from a fresh State
TopGeneric == array(TopCount, [pos |-> TopStart, state |-> State_new, evs |-> <<>>])

\* C10: an array object with count C decodes to FloatArray of the C floats in stream
\* order when every element is a Float large object (tag 9), and otherwise to what
\* the generic array path alone produces: Array of the C decoded values, with the
\* reference tables as that path leaves them (plus the array itself).
C10_FloatArrayOrArray ==
    (Returned /\ input # <<>> /\ input[1] <= 2 /\ (TopIsSmallArray \/ TopIsLargeArray)) =>
        IF TopAllFloat
        THEN /\ result = [k |-> "Ok", v |-> TableV(FloatArray(TopFloats))]
             /\ table_refs = <<FloatArray(TopFloats)>>
             /\ string_refs = <<>>
        ELSE IF TopGeneric.k = "Ok"
        THEN /\ result = [k |-> "Ok", v |-> TableV(Array(TopGeneric.v))]
             /\ table_refs = Append(TopGeneric.ps.state.table_refs, Array(TopGeneric.v))
             /\ string_refs = TopGeneric.ps.state.string_refs
        ELSE result.k # "Ok"

\* C10 witness: an array of two whose first element is a Float and whose second is
\* not was decoded to Array, the Float first
C10_Witness ==
    /\ Returned
    /\ TopIsSmallArray \/ TopIsLargeArray
    /\ TopCount = 2
    /\ ~TopAllFloat
    /\ result.k = "Ok"
    /\ result.v.tb.k = "Array"
    /\ result.v.tb.a[1] = Float(F64One)
    /\ result.v.tb.a[2].t # "Float"

\* the top-level object is a Mixed object: small type 3, or Mixed8/16/24 with both counts
TopIsSmallMixed == Len(input) >= 2 /\ input[2] % 16 = 14
MixedWidth == input[2] \div 8 - 22
TopIsLargeMixed ==
    /\ Len(input) >= 2
    /\ input[2] \in {184, 192, 200}
    /\ Len(input) >= 2 + 2 * MixedWidth
\* the array count, the keyed count, and the offset of the first entry
MixedAA ==
    IF TopIsSmallMixed THEN ((input[2] \div 16) \div 4) % 4
    ELSE BE(SubSeq(input, 3, 2 + MixedWidth))
MixedKK ==
    IF TopIsSmallMixed THEN (input[2] \div 16) % 4
    ELSE BE(SubSeq(input, 3 + MixedWidth, 2 + 2 * MixedWidth))
MixedStart == IF TopIsSmallMixed THEN 2 ELSE 2 + 2 * MixedWidth
\* every entry byte is a packed u7, so an entry is one byte
MixedEntriesPacked == \A i \in (MixedStart + 1)..Len(input) : input[i] % 2 = 1
\* the decimal text of n < 128
Dec(n) ==
    IF n < 10 THEN <<48 + n>>
    ELSE IF n < 100 THEN <<48 + (n \div 10), 48 + (n % 10)>>
    ELSE <<49, 48 + ((n \div 10) % 10), 48 + (n % 10)>>
\* the j-th key/value pair after the array part
MixedKey(j) == Dec(input[MixedStart + MixedAA + 2 * j - 1] \div 2)
MixedVal(j) == IntOf(input[MixedStart + MixedAA + 2 * j] \div 2)
MixedArrayPart == [i \in 1..MixedAA |-> IntOf(input[MixedStart + i] \div 2)]
MixedNamedPart ==
    [key \in {MixedKey(j) : j \in 1..MixedKK} |->
        MixedVal(CHOOSE j \in 1..MixedKK :
                    MixedKey(j) = key /\ \A l \in 1..MixedKK : MixedKey(l) = key => l <= j)]

\* C11: a small Mixed object with length code C holds AA = bits 2..3 of C array entries
\* followed by KK = bits 0..1 of C key/value entries, no offset added; Mixed8/16/24 hold
\* an array count and then a keyed count of 1/2/3 bytes each before the entries.  The
\* result is the Mixed table of exactly those parts (a repeated key keeps its last
\* value), and a stream that ends before the last entry is an error.
C11_MixedCounts ==
    (Returned /\ input # <<>> /\ input[1] <= 2 /\ (TopIsSmallMixed \/ TopIsLargeMixed)
              /\ MixedEntriesPacked) =>
        IF Len(input) >= MixedStart + MixedAA + 2 * MixedKK
        THEN /\ result = [k |-> "Ok", v |-> TableV(MixedTable(MixedArrayPart, MixedNamedPart))]
             /\ table_refs = <<MixedTable(MixedArrayPart, MixedNamedPart)>>
        ELSE result.k = "Err"

\* C11 witness: length code 6 gave a Mixed table of one array entry and two keys
C11_Witness ==
    /\ Returned
    /\ Len(input) >= 2
    /\ input[2] = 110
    /\ result.k = "Ok"
    /\ result.v.tb.k = "MixedTable"
    /\ Len(result.v.tb.a) = 1
    /\ Cardinality(DOMAIN result.v.tb.m) = 2

-----------------------------------------------------------------------------
(* LibDeflate print decoding: site/wasm/src/parser/decompress.rs.  The caller   *)
(* hands a &str (its UTF-8 bytes in `input`) to decode_for_print or decompress, *)
(* `result` is what came back: Ok(bytes), Err(DecompressionError) or a panic.   *)

PRINT_DECODING_TABLE ==
    <<0, 0, 0, 0, 0, 0, 0, 0, 0, 0, 0, 0, 0, 0, 0, 0, 0, 0, 0, 0, 0, 0, 0, 0, 0, 0, 0, 0, 0, 0, 0, 0,
      0, 0, 0, 0, 0, 0, 0, 0, 62, 63, 0, 0, 0, 0, 0, 0, 52, 53, 54, 55, 56, 57, 58, 59, 60, 61, 0, 0,
      0, 0, 0, 0, 0, 26, 27, 28, 29, 30, 31, 32, 33, 34, 35, 36, 37, 38, 39, 40, 41, 42, 43, 44, 45,
      46, 47, 48, 49, 50, 51, 0, 0, 0, 0, 0, 0, 0, 1, 2, 3, 4, 5, 6, 7, 8, 9, 10, 11, 12, 13, 14, 15,
      16, 17, 18, 19, 20, 21, 22, 23, 24, 25>>

\* code 97 is ACTUALLY 0
SPECIAL_ZERO == 97

POk(v) == [k |-> "Ok", v |-> v]
InvalidPrintByte(b) == [k |-> "Err", e |-> [t |-> "InvalidPrintByte", b |-> b]]
DeflateError == [k |-> "Err", e |-> [t |-> "DeflateError"]]
PPanic(msg) == [k |-> "Panic", msg |-> msg]

\* decode_byte(b): PRINT_DECODING_TABLE[b as usize] is a checked slice index
decode_byte(b) ==
    IF b = SPECIAL_ZERO THEN POk(0)
    ELSE IF b >= Len(PRINT_DECODING_TABLE) THEN PPanic("index out of bounds")
    ELSE IF PRINT_DECODING_TABLE[b + 1] = 0 THEN InvalidPrintByte(b)
    ELSE POk(PRINT_DECODING_TABLE[b + 1])

\* decode_byte(x[0])? .. decode_byte(x[n])?: the outcomes in order, up to the first
\* that is not Ok
decode_bytes(x) == [i \in DOMAIN x |-> decode_byte(x[i])]
first_failure(ds) ==
    IF \A i \in DOMAIN ds : ds[i].k = "Ok" THEN POk(ds)
    ELSE ds[CHOOSE i \in DOMAIN ds : ds[i].k # "Ok" /\ \A j \in 1..(i - 1) : ds[j].k = "Ok"]

\* the three bytes pushed for one chunk of four characters
chunk_bytes(d) ==
    Only({<<cache % 256, (cache \div 256) % 256, (cache \div 256) \div 256>> :
          cache \in {d[1].v + d[2].v * 64 + d[3].v * 4096 + d[4].v * 262144}})

RECURSIVE major_loop(_, _, _)
\* for x in major.chunks(4), from chunk i on, `res` the bytes pushed so far
major_loop(major, i, res) ==
    IF 4 * i >= Len(major) THEN POk(res)
    ELSE Only({IF d.k # "Ok" THEN d
               ELSE Only({major_loop(major, i + 1, r) : r \in {res \o chunk_bytes(d.v)}}) :
               d \in {first_failure(decode_bytes(SubSeq(major, 4 * i + 1, 4 * i + 4)))}})

RECURSIVE minor_cache(_, _)
\* cache after the first n characters of minor: each adds its value * 2^cache_bitlen
minor_cache(d, n) == IF n = 0 THEN 0 ELSE minor_cache(d, n - 1) + d[n].v * Pow2(6 * (n - 1))

RECURSIVE drain(_, _)
\* while cache_bitlen >= 8: push cache % 256
drain(cache, cache_bitlen) ==
    IF cache_bitlen >= 8 THEN <<cache % 256>> \o drain(cache \div 256, cache_bitlen - 8) ELSE <<>>

\* the part of decode_for_print after the split: the assert, the chunks, the tail
decode_split(major, minor) ==
    IF Len(major) % 4 # 0 THEN PPanic("assertion failed: major.len() % 4 == 0")
    ELSE Only({IF r.k # "Ok" THEN r
               ELSE Only({IF d.k # "Ok" THEN d
                          ELSE POk(r.v \o drain(minor_cache(d.v, Len(minor)), 6 * Len(minor))) :
                          d \in {first_failure(decode_bytes(minor))}}) :
               r \in {major_loop(major, 0, <<>>)}})

\* decode_for_print(input).  bytes.split_at(bytes.len() - 4): on fewer than 4 bytes the
\* usize subtraction panics when the build checks overflow, and wraps when it does not,
\* to a mid beyond the length, where split_at panics.
decode_for_print(inp) ==
    IF Len(inp) < 4
    THEN IF overflow_checks THEN PPanic("attempt to subtract with overflow")
         ELSE PPanic("mid > len")
    ELSE decode_split(SubSeq(inp, 1, Len(inp) - 4), SubSeq(inp, Len(inp) - 3, Len(inp)))

\* DeflateDecoder::write_all / finish on the decoded bytes: the inflated bytes (kept as
\* a token of the bytes they came from) or an io::Error, as flate2 decides
inflate_outcomes(decoded) == {POk(<<"inflated", decoded>>), DeflateError}

\* decompress(input): decode_for_print(input)?, then DEFLATE
decompress_outcomes(inp) ==
    UNION {IF d.k # "Ok" THEN {d} ELSE inflate_outcomes(d.v) : d \in {decode_for_print(inp)}}

\* the characters the strings are built from: a b z A 9 ( ) valid, space and ` in the
\* table with entry 0, { past the end of the table
PrintChars == {97, 98, 41, 32, 123}
PrintInputs ==
    Streams({<<c>> : c \in PrintChars}, MaxPrintLen)
    \cup {<<b, 97, 97, 97>> : b \in 0..127} \cup {<<97, 97, 97, b>> : b \in 0..127}
    \cup {<<97, 195, 169, 97>>, <<97, 97, 97, 97, 226, 130, 172, 97>>}
    \cup {s \o <<c>> \o t : s \in {<<122, 65, 57, 40>>, <<41, 98, 41, 98>>}, c \in {32, 123, 97},
                           t \in {<<98, 97, 41>>, <<41, 41, 41, 41>>, <<57, 98, 40, 97, 65, 41, 98>>}}

PrintInit == \E inp \in PrintInputs : Idle(inp)

\* one call of decode_for_print(input)
DecodeForPrint ==
    /\ pc = "call"
    /\ result' = [op |-> "decode_for_print", r |-> decode_for_print(input)]
    /\ pc' = "returned"
    /\ UNCHANGED <<input, string_refs, table_refs, evs, started, history, overflow_checks, recording>>

\* one call of decompress(input)
Decompress ==
    /\ pc = "call"
    /\ \E r \in decompress_outcomes(input) : result' = [op |-> "decompress", r |-> r]
    /\ pc' = "returned"
    /\ UNCHANGED <<input, string_refs, table_refs, evs, started, history, overflow_checks, recording>>

PrintNext == DecodeForPrint \/ Decompress

PrintSpec == PrintInit /\ [][PrintNext]_vars

\* the digit value of a character of the printable alphabet a-z A-Z 0-9 ( )
PrintDigit(c) ==
    IF c >= 97 /\ c <= 122 THEN c - 97
    ELSE IF c >= 65 /\ c <= 90 THEN c - 65 + 26
    ELSE IF c >= 48 /\ c <= 57 THEN c - 48 + 52
    ELSE IF c = 40 THEN 62 ELSE 63
PrintAlphabet == (97..122) \cup (65..90) \cup (48..57) \cup {40, 41}
Decoded == Returned /\ result.op = "decode_for_print"

\* C12: decode_for_print takes the 64 characters a-z, A-Z, 0-9, ( and ) to the digits
\* 0..63, and on an input holding any other byte it returns InvalidPrintByte(b) for
\* the first such byte b, without output and without aborting.  Stated here for the
\* inputs of 4, 8, .. characters, which the decoder splits without remainder.
C12_InvalidPrintByte ==
    (Decoded /\ Len(input) >= 4 /\ Len(input) % 4 = 0) =>
        /\ \A c \in PrintAlphabet : decode_byte(c) = POk(PrintDigit(c))
        /\ \A c, d \in PrintAlphabet : PrintDigit(c) = PrintDigit(d) => c = d
        /\ \A i \in DOMAIN input :
              (input[i] \notin PrintAlphabet /\ \A j \in 1..(i - 1) : input[j] \in PrintAlphabet)
                  => result.r = InvalidPrintByte(input[i])

\* bit n of the little-endian concatenation of the characters' 6-bit values
PrintBit(n) == (PrintDigit(input[n \div 6 + 1]) \div Pow2(n % 6)) % 2
RECURSIVE PrintByteFrom(_, _)
\* byte j of that concatenation, from its bit k on
PrintByteFrom(j, k) ==
    IF k > 7 THEN 0 ELSE PrintBit(8 * j + k) * Pow2(k) + PrintByteFrom(j, k + 1)
PrintBytes == [j \in 1..((6 * Len(input)) \div 8) |-> PrintByteFrom(j - 1, 0)]
AllPrintable == \A i \in DOMAIN input : input[i] \in PrintAlphabet

\* C13: for every printable blob of length L >= 4 whose characters are all valid,
\* whatever L mod 4 is, decode_for_print succeeds and returns floor(6*L/8) bytes, the
\* bytes of the little-endian concatenation of the 6-bit values, residual bits dropped.
C13_DecodesAllLengths ==
    (Decoded /\ Len(input) >= 4 /\ AllPrintable) => result.r = POk(PrintBytes)

\* C14: decode_for_print and decompress return bytes or a DecompressionError for every
\* input string, the empty string and strings shorter than 4 characters included; they
\* never abort.
C14_NeverAborts ==
    Returned => result.r.k \in {"Ok", "Err"}

-----------------------------------------------------------------------------
(* The SavedVariables text parser: site/wasm/crates/serde-savedvariables/src/lib.rs *)
(* (parser/mod.rs holds the same parser functions).  `input` holds the characters   *)
(* of the &str; a parser takes the offset p it starts at and returns                *)
(* [k |-> "Ok", pos, v] with the offset it stopped at, or [k |-> "Error"].          *)
(* Parsers whose names the binary deserializer also uses carry the prefix sv_.      *)

TOk(p, v) == [k |-> "Ok", pos |-> p, v |-> v]
TErr == [k |-> "Error"]

Empty == [k |-> "Empty"]

IsDigit(c) == c >= 48 /\ c <= 57
\* char::is_alphanumeric() || c == '_' (the model's characters are ASCII)
IsIdentChar(c) == IsDigit(c) \/ (c >= 65 /\ c <= 90) \/ (c >= 97 /\ c <= 122) \/ c = 95
\* multispace1: space, tab, CR, LF
IsSpace(c) == c \in {32, 9, 13, 10}
NotLineEnd(c) == c \notin {13, 10}

\* the character classes the parsers take runs of
InClass(class, c) ==
    CASE class = "digit" -> IsDigit(c)
      [] class = "ident" -> IsIdentChar(c)
      [] class = "space" -> IsSpace(c)
      [] class = "line" -> NotLineEnd(c)

\* where the longest run of characters satisfying P that starts at offset p ends
SpanEnd(class, p) ==
    CHOOSE q \in p..Len(input) :
        /\ \A i \in (p + 1)..q : InClass(class, input[i])
        /\ q = Len(input) \/ ~InClass(class, input[q + 1])

\* tag(t), one_of(t) for a single character
tag(t, p) ==
    IF p + Len(t) <= Len(input) /\ SubSeq(input, p + 1, p + Len(t)) = t
    THEN TOk(p + Len(t), t) ELSE TErr

sv_nil(p) == IF tag(<<110, 105, 108>>, p).k = "Ok" THEN TOk(p + 3, Nil) ELSE TErr

boolean(p) ==
    IF tag(<<116, 114, 117, 101>>, p).k = "Ok" THEN TOk(p + 4, Bool(TRUE))
    ELSE IF tag(<<102, 97, 108, 115, 101>>, p).k = "Ok" THEN TOk(p + 5, Bool(FALSE))
    ELSE TErr

\* an optional sign: 1 if the character at p is + or -, else 0
sign_len(p) == IF p < Len(input) /\ input[p + 1] \in {43, 45} THEN 1 ELSE 0

\* character::complete::i64: optional sign, then digits.  The runs of digits in the
\* model are short, so the overflow arm (an Error) is never taken.
parse_i64(p) ==
    Only({IF q = p + sign_len(p) THEN TErr
          ELSE TOk(q, IntV(tag(<<45>>, p).k = "Ok",
                           ToBytes(DecimalValue(SubSeq(input, p + sign_len(p) + 1, q))))) :
          q \in {SpanEnd("digit", p + sign_len(p))}})

\* terminated(parse_i64, not(tag(".")))
sv_int(p) ==
    Only({IF r.k = "Ok" /\ tag(<<46>>, r.pos).k # "Ok" THEN r ELSE TErr : r \in {parse_i64(p)}})

\* the f64 a decimal literal denotes: exact when its fraction is absent or all zeros,
\* otherwise kept as the token <<256>> \o text
text_f64(text) ==
    Only({Only({IF \A i \in (dot + 1)..Len(digits) : digits[i] = 48
                THEN (IF text[1] = 45 THEN F64Neg(whole) ELSE whole)
                ELSE <<256>> \o text :
                whole \in {F64OfNat(DecimalValue(SubSeq(digits, 1, dot - 1)))}}) :
          digits \in {IF text[1] \in {43, 45} THEN Tail(text) ELSE text},
          dot \in {IF \E i \in DOMAIN text : text[i] = 46
                   THEN (CHOOSE i \in DOMAIN text : text[i] = 46)
                        - (IF text[1] \in {43, 45} THEN 1 ELSE 0)
                   ELSE Len(text) + 1}})

\* number::complete::double: sign? (digits ('.' digits?)? | '.' digits).  No character
\* of the model follows a number with an exponent, and none spells nan or inf.
double(p) ==
    Only({Only({IF q2 = s THEN TErr ELSE TOk(q2, Float(text_f64(SubSeq(input, p + 1, q2)))) :
                q2 \in {IF q1 > s
                        THEN IF tag(<<46>>, q1).k = "Ok" THEN SpanEnd("digit", q1 + 1) ELSE q1
                        ELSE IF tag(<<46>>, s).k = "Ok" /\ SpanEnd("digit", s + 1) > s + 1
                        THEN SpanEnd("digit", s + 1)
                        ELSE s}}) :
          s \in {p + sign_len(p)}, q1 \in {SpanEnd("digit", p + sign_len(p))}})

sv_float(p) == double(p)

RECURSIVE escaped_loop(_, _, _)
\* escaped(none_of(quote), '\\', one_of(quote)) started at offset start, now at i.
\* normal = none_of(quote) takes any character but the quote, the backslash included.
escaped_loop(quote, start, i) ==
    IF i >= Len(input) THEN TOk(Len(input), SubSeq(input, start + 1, Len(input)))
    ELSE IF input[i + 1] # quote
    THEN \* normal took one character
         IF i + 1 = Len(input) THEN TOk(Len(input), SubSeq(input, start + 1, Len(input)))
         ELSE escaped_loop(quote, start, i + 1)
    ELSE IF input[i + 1] = 92
    THEN \* the control character: the escapable parser runs on what follows it
         IF i + 1 >= Len(input) THEN TErr
         ELSE IF input[i + 2] # quote THEN TErr
         ELSE IF i + 2 = Len(input) THEN TOk(Len(input), SubSeq(input, start + 1, Len(input)))
         ELSE escaped_loop(quote, start, i + 2)
    ELSE IF i = start THEN TErr
    ELSE TOk(i, SubSeq(input, start + 1, i))

\* delimited(one_of(quote), escaped(..), one_of(quote)) mapped to Value::String
string_quoted(quote, p) ==
    IF tag(<<quote>>, p).k # "Ok" THEN TErr
    ELSE Only({IF r.k = "Ok" /\ tag(<<quote>>, r.pos).k = "Ok"
               THEN TOk(r.pos + 1, String(r.v)) ELSE TErr :
               r \in {escaped_loop(quote, p + 1, p + 1)}})

string_double(p) == string_quoted(34, p)
string_single(p) == string_quoted(39, p)

\* delimited(tag("--"), recognize(many0(none_of("\r\n"))), alt((eof, line_ending)))
comment(p) ==
    IF tag(<<45, 45>>, p).k # "Ok" THEN TErr
    ELSE Only({IF q = Len(input) THEN TOk(q, <<>>)
               ELSE IF tag(<<10>>, q).k = "Ok" THEN TOk(q + 1, <<>>)
               ELSE IF tag(<<13, 10>>, q).k = "Ok" THEN TOk(q + 2, <<>>)
               ELSE TErr : q \in {SpanEnd("line", p + 2)}})

identifier(p) ==
    Only({IF q = p THEN TErr ELSE TOk(q, SubSeq(input, p + 1, q)) :
          q \in {SpanEnd("ident", p)}})

RECURSIVE spacing(_)
\* fold_many0(alt((multispace1, comment))): the offset after all whitespace and comments
spacing(p) ==
    Only({IF q > p THEN spacing(q)
          ELSE Only({IF c.k = "Ok" THEN spacing(c.pos) ELSE p : c \in {comment(p)}}) :
          q \in {SpanEnd("space", p)}})

\* ws(tag(t)) = delimited(spacing, tag(t), spacing)
ws_tag(t, p) ==
    Only({IF r.k = "Ok" THEN TOk(spacing(r.pos), t) ELSE TErr : r \in {tag(t, spacing(p))}})

\* delimited(tag("["), alt((string_single, string_double)), tag("]"))
table_string_key(p) ==
    IF tag(<<91>>, p).k # "Ok" THEN TErr
    ELSE Only({IF s.k = "Ok" /\ tag(<<93>>, s.pos).k = "Ok" THEN TOk(s.pos + 1, s.v.s)
               ELSE TErr :
               s \in {Only({IF s1.k = "Ok" THEN s1 ELSE string_double(p + 1) :
                            s1 \in {string_single(p + 1)}})}})

table_empty(p) ==
    IF tag(<<123>>, p).k # "Ok" THEN TErr
    ELSE Only({IF tag(<<125>>, q).k = "Ok" THEN TOk(q + 1, Empty) ELSE TErr :
               q \in {spacing(p + 1)}})

RECURSIVE sv_value(_)
RECURSIVE array_items(_, _)
RECURSIVE named_items(_, _)

\* separated_pair(alt((table_string_key, identifier)), ws(tag("=")), value)
named_pair(p) ==
    Only({IF key.k # "Ok" THEN TErr
          ELSE Only({IF eq.k # "Ok" THEN TErr
                     ELSE Only({IF v.k = "Ok" THEN TOk(v.pos, <<key.v, v.v>>) ELSE TErr :
                                v \in {sv_value(eq.pos)}}) :
                     eq \in {ws_tag(<<61>>, key.pos)}}) :
          key \in {Only({IF k1.k = "Ok" THEN k1 ELSE identifier(p) :
                         k1 \in {table_string_key(p)}})}})

\* separated_list1(ws(tag(",")), value) after an element that ended at p: a separator
\* with no element after it is left unread
array_items(p, res) ==
    Only({IF sep.k # "Ok" THEN TOk(p, res)
          ELSE Only({IF v.k # "Ok" THEN TOk(p, res)
                     ELSE Only({array_items(v.pos, r) : r \in {Append(res, v.v)}}) :
                     v \in {sv_value(sep.pos)}}) :
          sep \in {ws_tag(<<44>>, p)}})

\* separated_list1(ws(tag(",")), named_pair) after a pair that ended at p
named_items(p, res) ==
    Only({IF sep.k # "Ok" THEN TOk(p, res)
          ELSE Only({IF v.k # "Ok" THEN TOk(p, res)
                     ELSE Only({named_items(v.pos, r) : r \in {Append(res, v.v)}}) :
                     v \in {named_pair(sep.pos)}}) :
          sep \in {ws_tag(<<44>>, p)}})

\* terminated(list, opt(ws(tag(",")))) then ws(tag("}")), the list having ended at p
table_close(p) ==
    Only({ws_tag(<<125>>, IF c.k = "Ok" THEN c.pos ELSE p) : c \in {ws_tag(<<44>>, p)}})

RECURSIVE collect(_, _)
\* entries.into_iter().collect::<HashMap<_, _>>(): a later pair replaces an earlier one
collect(entries, n) ==
    IF n = 0 THEN EmptyMap ELSE Insert(collect(entries, n - 1), entries[n][1], entries[n][2])

table_named(p) ==
    Only({IF open.k # "Ok" THEN TErr
          ELSE Only({IF first.k # "Ok" THEN TErr
                     ELSE Only({Only({IF close.k = "Ok"
                                      THEN TOk(close.pos, Named(collect(l.v, Len(l.v))))
                                      ELSE TErr : close \in {table_close(l.pos)}}) :
                                l \in {named_items(first.pos, <<first.v>>)}}) :
                     first \in {named_pair(open.pos)}}) :
          open \in {ws_tag(<<123>>, p)}})

table_array(p) ==
    Only({IF open.k # "Ok" THEN TErr
          ELSE Only({IF first.k # "Ok" THEN TErr
                     ELSE Only({Only({IF close.k = "Ok" THEN TOk(close.pos, Array(l.v))
                                      ELSE TErr : close \in {table_close(l.pos)}}) :
                                l \in {array_items(first.pos, <<first.v>>)}}) :
                     first \in {sv_value(open.pos)}}) :
          open \in {ws_tag(<<123>>, p)}})

\* fault variant of sv_table: no fall back to the Named production
sv_table_array_only(p) ==
    Only({IF e.k = "Ok" THEN TOk(e.pos, TableV(e.v))
          ELSE Only({IF a.k = "Ok" THEN TOk(a.pos, TableV(a.v)) ELSE TErr :
                     a \in {table_array(p)}}) :
          e \in {table_empty(p)}})

\* map(alt((table_empty, table_array, table_named)), Value::Table)
sv_table(p) ==
    Only({IF e.k = "Ok" THEN TOk(e.pos, TableV(e.v))
          ELSE Only({IF a.k = "Ok" THEN TOk(a.pos, TableV(a.v))
                     ELSE Only({IF n.k = "Ok" THEN TOk(n.pos, TableV(n.v)) ELSE TErr :
                                n \in {table_named(p)}}) :
                     a \in {table_array(p)}}) :
          e \in {table_empty(p)}})

\* the first Ok of a sequence of outcomes, or the last outcome
first_ok(rs) ==
    IF \E i \in DOMAIN rs : rs[i].k = "Ok"
    THEN rs[CHOOSE i \in DOMAIN rs : rs[i].k = "Ok" /\ \A j \in 1..(i - 1) : rs[j].k # "Ok"]
    ELSE rs[Len(rs)]

\* alt((nil, boolean, int, float, string_double, string_single, table))
sv_value(p) ==
    Only({IF r.k = "Ok" THEN r ELSE sv_table(p) :
          r \in {first_ok(<<sv_nil(p), boolean(p), sv_int(p), sv_float(p),
                            string_double(p), string_single(p)>>)}})

\* complete(map(ws(named_pair), |(_, v)| v))
initial_assignment(p) ==
    Only({IF r.k = "Ok" THEN TOk(spacing(r.pos), r.v[2]) ELSE TErr :
          r \in {named_pair(spacing(p))}})

\* from_str up to T::deserialize: alt((initial_assignment, complete(value)))(s), the
\* rest of the input dropped; the Value handed to ValueDeserializer, or ValueError
from_str ==
    Only({IF a.k = "Ok" THEN [k |-> "Ok", v |-> a.v]
          ELSE Only({IF v.k = "Ok" THEN [k |-> "Ok", v |-> v.v]
                     ELSE [k |-> "Err", e |-> [t |-> "ValueError"]] : v \in {sv_value(0)}}) :
          a \in {initial_assignment(0)}})

\* texts around string literals: the two quotes, the backslash and a letter
StringChars == {34, 39, 92, 97}
\* tables of one pair under a bracketed string key: empty and one-letter keys
KeyTexts ==
    { <<123, 91, 34, 34, 93, 61, 49, 125>>, <<123, 91, 39, 39, 93, 61, 49, 125>>,
      <<123, 91, 34, 97, 34, 93, 61, 49, 125>>, <<123, 91, 39, 97, 39, 93, 61, 49, 125>> }
StringInputs == Streams({<<c>> : c \in StringChars}, MaxStringLen) \cup KeyTexts

\* the text parser's own arithmetic is checked in every build
TextIdle(inp) == Idle(inp) /\ overflow_checks = FALSE

\* complete(value)(input), as the parse tests of the source call it
ParseValue ==
    /\ pc = "call"
    /\ result' = [op |-> "value", r |-> sv_value(0)]
    /\ pc' = "returned"
    /\ UNCHANGED <<input, string_refs, table_refs, evs, started, history, overflow_checks, recording>>

\* from_str(input), up to the Value it hands to T::deserialize
FromStr ==
    /\ pc = "call"
    /\ result' = [op |-> "from_str", r |-> from_str]
    /\ pc' = "returned"
    /\ UNCHANGED <<input, string_refs, table_refs, evs, started, history, overflow_checks, recording>>

StringInit == \E inp \in StringInputs : TextIdle(inp)
TextNext == ParseValue \/ FromStr
StringSpec == StringInit /\ [][TextNext]_vars

ParsedValue == Returned /\ result.op = "value"
\* the character at i is a delimiter that no backslash immediately precedes
Unescaped(quote, i) == input[i] = quote /\ input[i - 1] # 92

\* C15: a string literal in double (or single) quotes ends at the first delimiter that
\* no backslash immediately precedes; a delimiter after a backslash does not end it.
\* The String produced is the input between the outer delimiters, backslashes kept.
C15_EscapedDelimiter ==
    (ParsedValue /\ input # <<>> /\ input[1] \in {34, 39}) =>
        \A e \in 2..Len(input) :
            (Unescaped(input[1], e) /\ \A i \in 2..(e - 1) : ~Unescaped(input[1], i))
                => result.r = TOk(e, String(SubSeq(input, 2, e - 1)))

\* entries of table literals: how each is written and the Value it denotes
Positionals ==
    { [pos |-> TRUE, key |-> <<>>, keytext |-> <<>>, text |-> <<49>>, v |-> IntOf(1)],
      [pos |-> TRUE, key |-> <<>>, keytext |-> <<>>, text |-> <<39, 97, 39>>, v |-> String(<<97>>)],
      [pos |-> TRUE, key |-> <<>>, keytext |-> <<>>, text |-> <<110, 105, 108>>, v |-> Nil],
      [pos |-> TRUE, key |-> <<>>, keytext |-> <<>>, text |-> <<123, 125>>, v |-> TableV(Empty)] }
Pairs ==
    { [pos |-> FALSE, key |-> <<120>>, keytext |-> <<120>>, text |-> <<50>>, v |-> IntOf(2)],
      [pos |-> FALSE, key |-> <<107>>, keytext |-> <<91, 39, 107, 39, 93>>,
       text |-> <<34, 98, 34>>, v |-> String(<<98>>)] }
\* a literal: its entries, whether a comma follows the last one, whether it is spaced out
Literals ==
    [items : Streams({<<e>> : e \in Positionals \cup Pairs}, MaxEntries),
     trail : BOOLEAN, wide : BOOLEAN]
\* a trailing comma follows an entry
ProperLiterals == {l \in Literals : l.trail => l.items # <<>>}

EntryText(e, wide) ==
    IF e.pos THEN e.text
    ELSE e.keytext \o (IF wide THEN <<32, 61, 32>> ELSE <<61>>) \o e.text
RECURSIVE Joined(_, _, _)
Joined(items, n, wide) ==
    IF n = 0 THEN <<>>
    ELSE IF n = 1 THEN EntryText(items[1], wide)
    ELSE Joined(items, n - 1, wide) \o (IF wide THEN <<32, 44, 32>> ELSE <<44>>)
         \o EntryText(items[n], wide)
\* the text of a literal
Written(l) ==
    <<123>> \o (IF l.wide THEN <<32>> ELSE <<>>) \o Joined(l.items, Len(l.items), l.wide)
    \o (IF l.trail THEN <<44>> ELSE <<>>) \o (IF l.wide THEN <<32>> ELSE <<>>) \o <<125>>
\* braces around whitespace and comments only
EmptyTexts ==
    { <<123, 125>>, <<123, 32, 125>>, <<123, 10, 9, 125>>, <<123, 45, 45, 99, 10, 125>>,
      <<123, 32, 45, 45, 32, 99, 10, 32, 125>>, <<123, 45, 45, 99, 13, 10, 45, 45, 10, 125>> }
\* each literal beside its text
WrittenLiterals == {[text |-> Written(l), l |-> l] : l \in ProperLiterals}
TableInputs == {w.text : w \in WrittenLiterals} \cup EmptyTexts

TableInit == \E inp \in TableInputs : TextIdle(inp)
TableSpec == TableInit /\ [][TextNext]_vars

\* the table the claim assigns to a literal
Classified(l) ==
    IF l.items = <<>> THEN TableV(Empty)
    ELSE IF \A i \in DOMAIN l.items : l.items[i].pos
    THEN TableV(Array([i \in DOMAIN l.items |-> l.items[i].v]))
    ELSE TableV(Named([k \in {l.items[i].key : i \in DOMAIN l.items} |->
                          l.items[CHOOSE i \in DOMAIN l.items :
                                      /\ l.items[i].key = k
                                      /\ \A j \in DOMAIN l.items :
                                             l.items[j].key = k => j <= i].v]))
Mixes(l) == \E i, j \in DOMAIN l.items : l.items[i].pos /\ ~l.items[j].pos

\* C16: braces around whitespace/comments only parse to Empty; a comma-separated list of
\* values (a trailing comma allowed) parses to Array with the values in source order; a
\* list of key = value pairs parses to Named; a literal mixing positional values with
\* key = value entries is rejected.
C16_TableVariants ==
    ParsedValue =>
        /\ input \in EmptyTexts => result.r = TOk(Len(input), TableV(Empty))
        /\ \A w \in WrittenLiterals :
               input = w.text =>
                   result.r = IF Mixes(w.l) THEN TErr ELSE TOk(Len(input), Classified(w.l))
\* { x = 2 , ['k'] = "b", } is parsed to the Named table of its two pairs
C16_Witness ==
    /\ ParsedValue
    /\ \E w \in WrittenLiterals :
           /\ input = w.text /\ w.l.trail /\ Len(w.l.items) = 2
           /\ ~w.l.items[1].pos /\ ~w.l.items[2].pos /\ w.l.items[1] # w.l.items[2]
    /\ result.r.k = "Ok" /\ result.r.v.tb.k = "Named"
    /\ DOMAIN result.r.v.tb.m = {<<120>>, <<107>>}

-----------------------------------------------------------------------------
(* The schema mapper of parser/mod.rs: TryFrom<Value> for the recording      *)
(* types.  A result is MOk(v), MErr(e) with e a SavedVariablesError, or      *)
(* MPanic.  A u64 is held as its magnitude, an f64 as Value::Float holds it, *)
(* a struct as [t |-> name, f |-> fields].                                    *)

MOk(v) == [k |-> "Ok", v |-> v]
MErr(e) == [k |-> "Err", e |-> e]
MPanic(msg) == [k |-> "Panic", msg |-> msg]

\* SavedVariablesError; the Debug text of the offending value is left out
BadType(name, expected) == [t |-> "BadType", name |-> name, expected |-> expected]
MissingKey(name, key) == [t |-> "MissingKey", name |-> name, key |-> key]
InvalidPrimitive(expected) == [t |-> "InvalidPrimitive", expected |-> expected]
SignCastError == [t |-> "SignCastError"]
ParseError == [t |-> "ParseError"]

None == [t |-> "None"]
Some(v) == [t |-> "Some", v |-> v]

\* stringify!(key) and the string literals of the mapper, as the characters of a str
stringify ==
    [ kind |-> <<107, 105, 110, 100>>,
      startTime |-> <<115, 116, 97, 114, 116, 84, 105, 109, 101>>,
      endTime |-> <<101, 110, 100, 84, 105, 109, 101>>,
      success |-> <<115, 117, 99, 99, 101, 115, 115>>,
      mapId |-> <<109, 97, 112, 73, 100>>,
      groupSize |-> <<103, 114, 111, 117, 112, 83, 105, 122, 101>>,
      encounterName |-> <<101, 110, 99, 111, 117, 110, 116, 101, 114, 78, 97, 109, 101>>,
      encounterId |-> <<101, 110, 99, 111, 117, 110, 116, 101, 114, 73, 100>>,
      difficultyId |-> <<100, 105, 102, 102, 105, 99, 117, 108, 116, 121, 73, 100>>,
      stats |-> <<115, 116, 97, 116, 115>>,
      calls |-> <<99, 97, 108, 108, 115>>,
      commits |-> <<99, 111, 109, 109, 105, 116, 115>>,
      total_time |-> <<116, 111, 116, 97, 108, 95, 116, 105, 109, 101>>,
      top5 |-> <<116, 111, 112, 53>>,
      officialTime |-> <<111, 102, 102, 105, 99, 105, 97, 108, 84, 105, 109, 101>>,
      mean |-> <<109, 101, 97, 110>>,
      samples |-> <<115, 97, 109, 112, 108, 101, 115>>,
      variance |-> <<118, 97, 114, 105, 97, 110, 99, 101>>,
      skew |-> <<115, 107, 101, 119>>,
      scripts |-> <<115, 99, 114, 105, 112, 116, 115>>,
      onUpdateDelay |-> <<111, 110, 85, 112, 100, 97, 116, 101, 68, 101, 108, 97, 121>>,
      encounter |-> <<101, 110, 99, 111, 117, 110, 116, 101, 114>>,
      data |-> <<100, 97, 116, 97>>,
      recordings |-> <<114, 101, 99, 111, 114, 100, 105, 110, 103, 115>>,
      manual |-> <<109, 97, 110, 117, 97, 108>>,
      mythicplus |-> <<109, 121, 116, 104, 105, 99, 112, 108, 117, 115>>,
      raid |-> <<114, 97, 105, 100>> ]

\* the fields each try_from_keys! invocation lists, in its order, with the type the
\* struct declares for each; opt marks the keys after the semicolon, whose declared
\* type is Option of ty
Fields ==
    [ Manual |->
          << [key |-> "startTime", ty |-> "u64", opt |-> FALSE],
             [key |-> "endTime", ty |-> "u64", opt |-> FALSE] >>,
      Dungeon |->
          << [key |-> "startTime", ty |-> "u64", opt |-> FALSE],
             [key |-> "endTime", ty |-> "u64", opt |-> FALSE],
             [key |-> "success", ty |-> "bool", opt |-> FALSE],
             [key |-> "mapId", ty |-> "u64", opt |-> FALSE],
             [key |-> "groupSize", ty |-> "u64", opt |-> FALSE] >>,
      Raid |->
          << [key |-> "startTime", ty |-> "u64", opt |-> FALSE],
             [key |-> "endTime", ty |-> "u64", opt |-> FALSE],
             [key |-> "encounterName", ty |-> "str", opt |-> FALSE],
             [key |-> "encounterId", ty |-> "u64", opt |-> FALSE],
             [key |-> "success", ty |-> "bool", opt |-> FALSE],
             [key |-> "difficultyId", ty |-> "u64", opt |-> FALSE],
             [key |-> "groupSize", ty |-> "u64", opt |-> FALSE] >>,
      TrackerData |->
          << [key |-> "stats", ty |-> "Stats", opt |-> FALSE],
             [key |-> "calls", ty |-> "u64", opt |-> FALSE],
             [key |-> "commits", ty |-> "u64", opt |-> FALSE],
             [key |-> "total_time", ty |-> "f64", opt |-> FALSE],
             [key |-> "top5", ty |-> "Vec_f64", opt |-> FALSE],
             [key |-> "officialTime", ty |-> "f64", opt |-> TRUE] >>,
      Stats |->
          << [key |-> "mean", ty |-> "f64", opt |-> FALSE],
             [key |-> "samples", ty |-> "Vec_f64", opt |-> FALSE],
             [key |-> "variance", ty |-> "f64", opt |-> TRUE],
             [key |-> "skew", ty |-> "f64", opt |-> TRUE] >>,
      ParsedRecording |->
          << [key |-> "scripts", ty |-> "HashMap_TrackerData", opt |-> FALSE],
             [key |-> "onUpdateDelay", ty |-> "TrackerData", opt |-> FALSE] >>,
      SavedVariables |->
          << [key |-> "recordings", ty |-> "Vec_Recording", opt |-> FALSE] >> ]

IsNamed(value) == value.t = "Table" /\ value.tb.k = "Named"

\* fault variant of try_from_u64: the number is cast (v as u64), never refused
try_from_u64_cast(value) ==
    IF value.t = "Int" THEN MOk([t |-> "u64", mag |-> value.mag])
    ELSE MErr(InvalidPrimitive("integer"))

\* TryFrom<Value> for u64: i64::try_into::<u64>() fails on a negative number
try_from_u64(value) ==
    IF value.t = "Int"
    THEN IF value.neg THEN MErr(SignCastError) ELSE MOk([t |-> "u64", mag |-> value.mag])
    ELSE MErr(InvalidPrimitive("integer"))

\* v as f64, for the integers of magnitude below 2^20 (all exactly representable)
i64_as_f64(v) ==
    Only({IF v.neg THEN F64Neg(f) ELSE f : f \in {F64OfNat(BE(v.mag))}})

\* TryFrom<Value> for f64
try_from_f64(value) ==
    IF value.t = "Float" THEN MOk(value.f)
    ELSE IF value.t = "Int" THEN MOk(i64_as_f64(value))
    ELSE MErr(InvalidPrimitive("float"))

\* TryFrom<Value> for bool
try_from_bool(value) ==
    IF value.t = "Bool" THEN MOk(value.b) ELSE MErr(InvalidPrimitive("bool"))

\* TryFrom<Value> for Cow<str>
try_from_str(value) ==
    IF value.t = "String" THEN MOk(value.s) ELSE MErr(InvalidPrimitive("string"))

RECURSIVE try_from(_, _)

RECURSIVE collect_vec(_, _, _, _)
\* vec.into_iter().map(V::try_from).collect::<Result<Vec<V>, _>>(): the first failure ends it
collect_vec(ty, vec, i, acc) ==
    IF i > Len(vec) THEN MOk(acc)
    ELSE Only({IF r.k # "Ok" THEN r
               ELSE Only({collect_vec(ty, vec, i + 1, a) : a \in {Append(acc, r.v)}}) :
               r \in {try_from(ty, vec[i])}})

\* TryFrom<Value> for Vec<V>, V given by ty
try_from_Vec(ty, value) ==
    IF value.t = "Table" /\ value.tb.k = "Array" THEN collect_vec(ty, value.tb.a, 1, <<>>)
    ELSE IF value.t = "Table" /\ value.tb.k = "Empty" THEN MOk(<<>>)
    ELSE MErr(BadType("Array", "Monotyped Table"))

RECURSIVE try_fold(_, _, _, _)
\* data.into_iter().try_fold(HashMap::new(), ..) over the entries left in keys.  The
\* iteration order of a HashMap is not fixed; the maps of the model hold at most one
\* entry whose value fails, so every order gives this outcome.
try_fold(ty, data, keys, map) ==
    IF keys = {} THEN MOk(map)
    ELSE Only({Only({IF r.k # "Ok" THEN r
                     ELSE Only({try_fold(ty, data, keys \ {key}, mp) :
                                mp \in {Insert(map, key, r.v)}}) :
                     r \in {try_from(ty, data[key])}}) :
               key \in {CHOOSE x \in keys : TRUE}})

\* TryFrom<Value> for HashMap<Cow<str>, V>, V given by ty
try_from_HashMap(ty, value) ==
    IF IsNamed(value) THEN try_fold(ty, value.tb.m, DOMAIN value.tb.m, EmptyMap)
    ELSE IF value.t = "Table" /\ value.tb.k = "Empty" THEN MOk(EmptyMap)
    ELSE MErr(BadType("HashMap", "Monotyped Associative Table"))

\* try_optional_value!(f64): TryFrom<Value> for Option<f64>
try_optional_value(ty, value) ==
    IF value.t = "Nil" THEN MOk(None)
    ELSE Only({IF r.k = "Ok" THEN MOk(Some(r.v)) ELSE r : r \in {try_from(ty, value)}})

RECURSIVE try_from_keys(_, _, _, _, _)
\* try_from_keys!(target(source) { keys; optKeys }): the fields from the i-th on, acc
\* holding the fields built so far.  A required key is remove(..).ok_or(MissingKey)
\* .and_then(|v| v.try_into())?; an optional key is
\* match remove(..) { Some(v) => Some(v.try_into()?), None => None }, where the
\* conversion inside Some(..) is to the field's inner type ty.
try_from_keys(target, source, fields, i, acc) ==
    IF i > Len(fields) THEN MOk([t |-> target, f |-> acc])
    ELSE Only({
        IF stringify[fld.key] \notin DOMAIN source
        THEN IF fld.opt
             THEN Only({try_from_keys(target, source, fields, i + 1, a) :
                        a \in {Insert(acc, fld.key, None)}})
             ELSE MErr(MissingKey(target, fld.key))
        ELSE Only({IF r.k # "Ok" THEN r
                   ELSE Only({try_from_keys(target, source, fields, i + 1, a) :
                              a \in {Insert(acc, fld.key, IF fld.opt THEN Some(r.v) ELSE r.v)}}) :
                   r \in {try_from(fld.ty, source[stringify[fld.key]])}}) :
        fld \in {fields[i]}})

\* fault variant of try_from_struct: a key the struct does not define is refused
try_from_struct_strict(target, value) ==
    IF IsNamed(value)
    THEN IF \A c \in DOMAIN value.tb.m :
                \E i \in DOMAIN Fields[target] : c = stringify[Fields[target][i].key]
         THEN try_from_keys(target, value.tb.m, Fields[target], 1, EmptyMap)
         ELSE MErr(BadType(target, "Associative Table"))
    ELSE MErr(BadType(target, "Associative Table"))

\* try_from_struct!(target { keys })
try_from_struct(target, value) ==
    IF IsNamed(value) THEN try_from_keys(target, value.tb.m, Fields[target], 1, EmptyMap)
    ELSE MErr(BadType(target, "Associative Table"))

\* TryFrom<Value> for RecordingData
try_from_RecordingData(value) ==
    IF value.t = "String" THEN MOk([t |-> "Unparsed", v |-> value.s])
    ELSE IF value.t = "Table"
    THEN Only({IF r.k = "Ok" THEN MOk([t |-> "Parsed", v |-> r.v]) ELSE r :
               r \in {try_from("ParsedRecording", value)}})
    ELSE MErr(BadType("RecordingData", "String or Table"))

\* TryFrom<Value> for ParsedRecording
try_from_ParsedRecording(value) ==
    IF IsNamed(value)
    THEN try_from_keys("ParsedRecording", value.tb.m, Fields.ParsedRecording, 1, EmptyMap)
    ELSE MErr(BadType("ParsedRecording", "Named Table"))

\* match &*value { "manual" => .., "mythicplus" => .., "raid" => .., _ => unreachable!() }
kind_arm(kind, data) ==
    IF kind = stringify.manual THEN try_from_keys("Manual", data, Fields.Manual, 1, EmptyMap)
    ELSE IF kind = stringify.mythicplus
    THEN try_from_keys("Dungeon", data, Fields.Dungeon, 1, EmptyMap)
    ELSE IF kind = stringify.raid THEN try_from_keys("Raid", data, Fields.Raid, 1, EmptyMap)
    ELSE MPanic("internal error: entered unreachable code")

\* TryFrom<Value> for Encounter
try_from_Encounter(value) ==
    IF IsNamed(value)
    THEN IF stringify.kind \notin DOMAIN value.tb.m
         THEN MErr(MissingKey("Encounter", "kind"))
         ELSE IF value.tb.m[stringify.kind].t = "String"
         THEN kind_arm(value.tb.m[stringify.kind].s, value.tb.m)
         ELSE MErr(BadType("EncounterType", "manual, mythicplus, or raid"))
    ELSE MErr(BadType("Encounter", "Associative Table"))

\* TryFrom<Value> for Recording
try_from_Recording(value) ==
    IF IsNamed(value)
    THEN IF stringify.encounter \notin DOMAIN value.tb.m
         THEN MErr(MissingKey("Recording", "encounter"))
         ELSE Only({
             IF encounter.k # "Ok" THEN encounter
             ELSE IF stringify.data \notin DOMAIN value.tb.m
             THEN MErr(MissingKey("Recording", "data"))
             ELSE Only({IF data.k # "Ok" THEN data
                        ELSE MOk([t |-> "Recording", encounter |-> encounter.v, data |-> data.v]) :
                        data \in {try_from("RecordingData", value.tb.m[stringify.data])}}) :
             encounter \in {try_from("Encounter", value.tb.m[stringify.encounter])}})
    ELSE MErr(BadType("Recording", "Associative Table"))

\* the types with a TryFrom<Value> in parser/mod.rs
Types ==
    {"u64", "f64", "bool", "str", "Vec_f64", "Vec_Recording", "HashMap_TrackerData",
     "Option_f64", "TrackerData", "Stats", "SavedVariables", "RecordingData",
     "ParsedRecording", "Encounter", "Recording"}

\* <T as TryFrom<Value>>::try_from(value): the implementation the type selects
try_from(ty, value) ==
    CASE ty = "u64" -> try_from_u64(value)
      [] ty = "f64" -> try_from_f64(value)
      [] ty = "bool" -> try_from_bool(value)
      [] ty = "str" -> try_from_str(value)
      [] ty = "Vec_f64" -> try_from_Vec("f64", value)
      [] ty = "Vec_Recording" -> try_from_Vec("Recording", value)
      [] ty = "HashMap_TrackerData" -> try_from_HashMap("TrackerData", value)
      [] ty = "Option_f64" -> try_optional_value("f64", value)
      [] ty \in {"TrackerData", "Stats", "SavedVariables"} -> try_from_struct(ty, value)
      [] ty = "RecordingData" -> try_from_RecordingData(value)
      [] ty = "ParsedRecording" -> try_from_ParsedRecording(value)
      [] ty = "Encounter" -> try_from_Encounter(value)
      [] ty = "Recording" -> try_from_Recording(value)

\* parse_saved_variables(data): initial_assignment alone, then SavedVariables::try_from
parse_saved_variables ==
    Only({IF a.k = "Ok" THEN try_from("SavedVariables", a.v) ELSE MErr(ParseError) :
          a \in {initial_assignment(0)}})

-----------------------------------------------------------------------------
(* Whole files given to the text entry points *)

\* whitespace and comments before the top-level form
Leads ==
    { <<>>,
      <<32>>,
      <<45, 45, 99, 10>>,
      <<10, 9>>,
      <<32, 45, 45, 99, 13, 10, 32>> }
\* identifier = value (or a bracketed string key), and bare values
Assignments ==
    { <<120, 32, 61, 32, 49>>,
      <<120, 61, 49>>,
      <<91, 39, 107, 39, 93, 32, 61, 32, 39, 97, 39>>,
      <<83, 32, 61, 32, 123, 114, 101, 99, 111, 114, 100, 105, 110, 103, 115, 32, 61, 32, 123, 125, 125>>,
      <<83, 32, 61, 32, 123, 91, 34, 114, 101, 99, 111, 114, 100, 105, 110, 103, 115, 34, 93, 32, 61, 32, 123, 123, 101, 110, 99, 111, 117, 110, 116, 101, 114, 32, 61, 32, 123, 107, 105, 110, 100, 32, 61, 32, 34, 109, 97, 110, 117, 97, 108, 34, 44, 32, 115, 116, 97, 114, 116, 84, 105, 109, 101, 32, 61, 32, 49, 44, 32, 101, 110, 100, 84, 105, 109, 101, 32, 61, 32, 50, 125, 44, 32, 100, 97, 116, 97, 32, 61, 32, 34, 97, 98, 99, 34, 125, 125, 125>> }
BareValues ==
    { <<49>>,
      <<39, 97, 39>>,
      <<123, 125>>,
      <<110, 105, 108>> }
\* what follows the top-level value: whitespace and comments only, or other content
BlankTrails ==
    { <<>>,
      <<32>>,
      <<10, 45, 45, 99>>,
      <<10>> }
OtherTrails ==
    { <<32, 121>>,
      <<44>>,
      <<32, 50>>,
      <<125>>,
      <<32, 120, 32, 61, 32, 50>> }

Files ==
    [lead : Leads, body : Assignments \cup BareValues, trail : BlankTrails \cup OtherTrails]
FileText(f) == f.lead \o f.body \o f.trail
FileInputs == {FileText(f) : f \in Files}

\* parse_saved_variables(input)
ParseSavedVariables ==
    /\ pc = "call"
    /\ result' = [op |-> "parse_saved_variables", r |-> parse_saved_variables]
    /\ pc' = "returned"
    /\ UNCHANGED <<input, string_refs, table_refs, evs, started, history, overflow_checks, recording>>

FileInit == \E inp \in FileInputs : TextIdle(inp)
FileNext == FromStr \/ ParseSavedVariables
FileSpec == FileInit /\ [][FileNext]_vars

\* the entry point returned its parse error
ParseRejected ==
    \/ result.op = "from_str" /\ result.r.k = "Err"
    \/ result.op = "parse_saved_variables" /\ result.r = MErr(ParseError)

\* C17: a text entry point accepts optional whitespace/comments, then either
\* identifier = value or a bare value, then only whitespace/comments up to the end of
\* the input; when any other content follows the top-level value it returns a parse
\* error instead of accepting the input and ignoring the remainder.
C17_WholeFile ==
    (Returned /\ result.op \in {"from_str", "parse_saved_variables"}) =>
        \A f \in Files :
            input = FileText(f) => (ParseRejected <=> f.trail \in OtherTrails)

-----------------------------------------------------------------------------
(* Values given to the schema mapper *)

Absent == [t |-> "Absent"]
\* the Named table of the keys of a record that are not Absent
NamedOf(rec) ==
    TableV(Named([c \in {stringify[k] : k \in {x \in DOMAIN rec : rec[x] # Absent}} |->
                     rec[CHOOSE k \in DOMAIN rec : stringify[k] = c]]))

\* scalars and plain tables; the integers stay below 2^20
Scalars ==
    { Nil, Bool(TRUE), Bool(FALSE), IntOf(0), IntOf(7), IntOf(0 - 7), IntOf(0 - 1),
      IntOf(1000000), Float(F64One), Float(F64Half), Float(F64Neg(F64One)),
      String(stringify.manual), String(<<97>>), TableV(Empty),
      TableV(Array(<<Float(F64One), IntOf(2)>>)), TableV(Array(<<Nil>>)) }

EncounterValues ==
    { NamedOf(rec) : rec \in
        [ kind : {Absent, String(stringify.manual), String(stringify.mythicplus),
                  String(stringify.raid), String(<<112, 118, 112>>), String(<<>>), IntOf(1), Nil},
          startTime : {Absent, IntOf(7), IntOf(0 - 7), Float(F64One)},
          endTime : {Absent, IntOf(9)},
          success : {Absent, Bool(TRUE), IntOf(1)},
          mapId : {Absent, IntOf(3)},
          groupSize : {Absent, IntOf(5)},
          encounterName : {Absent, String(<<97>>)},
          encounterId : {Absent, IntOf(2)},
          difficultyId : {IntOf(4)} ] }

StatsValues ==
    { NamedOf(rec) : rec \in
        [ mean : {Absent, Nil, Float(F64One), IntOf(2)},
          samples : {Absent, TableV(Empty), TableV(Array(<<Float(F64One)>>)),
                     TableV(Array(<<Nil>>))},
          variance : {Absent, Nil, Float(F64Half), IntOf(3), String(<<97>>)},
          skew : {Absent, Nil, Float(F64One)} ] }

TrackerDataValues ==
    { NamedOf(rec) : rec \in
        [ stats : {Absent,
                   NamedOf([mean |-> Float(F64One), samples |-> TableV(Empty)]),
                   NamedOf([mean |-> Float(F64One), samples |-> TableV(Empty),
                            variance |-> Nil, skew |-> Float(F64Half)])},
          calls : {Absent, IntOf(1)},
          commits : {IntOf(2), IntOf(0 - 1)},
          total_time : {Float(F64Half), IntOf(3)},
          top5 : {TableV(Empty), TableV(Array(<<Float(F64One), Float(F64Half)>>))},
          officialTime : {Absent, Nil, Float(F64One), IntOf(4), Bool(TRUE)} ] }

MapperValues == Scalars \cup EncounterValues \cup StatsValues \cup TrackerDataValues

MapperInit == \E v \in MapperValues : TextIdle(v)

\* T::try_from(input) for one of the mapper's types
TryFrom ==
    /\ pc = "call"
    /\ \E ty \in Types : result' = [op |-> "try_from", ty |-> ty, r |-> try_from(ty, input)]
    /\ pc' = "returned"
    /\ UNCHANGED <<input, string_refs, table_refs, evs, started, history, overflow_checks, recording>>

MapperNext == TryFrom
MapperSpec == MapperInit /\ [][MapperNext]_vars

Mapped(ty) == Returned /\ result.op = "try_from" /\ result.ty = ty
IsInvalidPrimitive(r) == r.k = "Err" /\ r.e.t = "InvalidPrimitive"

\* C18: a u64 field accepts only Int: a non-negative Int maps to the same number, a
\* negative Int yields the SignCast error, any other Value (Float included) yields
\* InvalidPrimitive.  An f64 field accepts Float unchanged and Int widened to the float
\* of the same number, and rejects every other Value with InvalidPrimitive.
C18_Primitives ==
    /\ Mapped("u64") =>
           IF input.t = "Int"
           THEN IF input.neg THEN result.r = MErr(SignCastError)
                ELSE /\ result.r.k = "Ok"
                     /\ int_to_string(IntV(FALSE, result.r.v.mag)) = int_to_string(input)
           ELSE IsInvalidPrimitive(result.r)
    /\ Mapped("f64") =>
           IF input.t = "Float" THEN result.r = MOk(input.f)
           ELSE IF input.t = "Int"
           THEN result.r.k = "Ok" /\ f64_to_string(result.r.v) = int_to_string(input)
           ELSE IsInvalidPrimitive(result.r)
\* Int(-7) given to a u64 field is refused with SignCastError
C18_Witness ==
    Mapped("u64") /\ input = IntOf(0 - 7) /\ result.r = MErr(SignCastError)

\* the optional keys of a struct, and a table without them
OptionalKeys(ty) == {Fields[ty][i].key : i \in {j \in DOMAIN Fields[ty] : Fields[ty][j].opt}}
WithoutOptional(ty, value) ==
    TableV(Named([c \in DOMAIN value.tb.m \ {stringify[k] : k \in OptionalKeys(ty)} |->
                     value.tb.m[c]]))
NilOrAbsent(value, key) ==
    stringify[key] \in DOMAIN value.tb.m => value.tb.m[stringify[key]] = Nil

\* C19: for the optional fields TrackerData.officialTime, Stats.variance and Stats.skew,
\* a key that is absent maps to None and a key that is present with Nil maps to None as
\* well: the mapping goes as if the key were not there, and does not fail on the Nil.
C19_OptionalNil ==
    \A ty \in {"Stats", "TrackerData"} :
        (Mapped(ty) /\ IsNamed(input)) =>
            /\ (\A key \in OptionalKeys(ty) : NilOrAbsent(input, key))
                   => result.r.k = try_from(ty, WithoutOptional(ty, input)).k
            /\ \A key \in OptionalKeys(ty) :
                   (NilOrAbsent(input, key) /\ result.r.k = "Ok") => result.r.v.f[key] = None

\* the variant each kind string selects
Variants ==
    {<<stringify.manual, "Manual">>, <<stringify.mythicplus, "Dungeon">>,
     <<stringify.raid, "Raid">>}

\* C20: mapping a Named table to Encounter selects the variant by the string under
\* kind: "manual", "mythicplus" and "raid" select Manual, Dungeon and Raid; a missing
\* kind yields MissingKey; every other kind, a Value that is no string or a string
\* outside the set, yields a BadType error returned to the caller.
C20_EncounterKind ==
    (Mapped("Encounter") /\ IsNamed(input)) =>
        IF stringify.kind \notin DOMAIN input.tb.m
        THEN result.r = MErr(MissingKey("Encounter", "kind"))
        ELSE IF \E s \in Variants : input.tb.m[stringify.kind] = String(s[1])
        THEN \A s \in Variants :
                 input.tb.m[stringify.kind] = String(s[1]) =>
                     \/ result.r.k = "Ok" /\ result.r.v.t = s[2]
                     \/ result.r.k = "Err" /\ result.r.e.t # "BadType"
        ELSE result.r.k = "Err" /\ result.r.e.t = "BadType"

\* C26: an empty string literal, two adjacent double quotes or two adjacent single
\* quotes, is accepted and produces a String of length 0, as a value and as a bracketed
\* table key.
C26_EmptyString ==
    ParsedValue =>
        /\ input \in {<<34, 34>>, <<39, 39>>} => result.r = TOk(2, String(<<>>))
        /\ input \in {<<123, 91, 34, 34, 93, 61, 49, 125>>, <<123, 91, 39, 39, 93, 61, 49, 125>>}
               => result.r = TOk(8, TableV(Named(Insert(EmptyMap, <<>>, IntOf(1)))))

-----------------------------------------------------------------------------
(* A buffer decoded, then decoded again with bytes appended *)

TrailInputs == {<<1>> \o s : s \in Streams(CoreChunks, MaxTrailChunks)}
\* what the caller appends: Nil, a packed integer, "", a TableRef8, a cut-off header
Trails == {<<0>>, <<3>>, <<2>>, <<232, 1>>, <<255>>, <<72>>}

TrailInit == \E inp \in TrailInputs : Idle(inp)

\* the caller hands over the same buffer with more bytes after it
Extend ==
    /\ pc = "returned"
    /\ Len(history) = 1
    /\ \E t \in Trails : input' = input \o t
    /\ pc' = "call"
    /\ UNCHANGED <<result, string_refs, table_refs, evs, started, history, overflow_checks, recording>>

TrailNext == Deserialize \/ Extend
TrailSpec == TrailInit /\ [][TrailNext]_vars

IsPrefix(s, t) == Len(s) <= Len(t) /\ SubSeq(t, 1, Len(s)) = s

\* C30: one value is decoded after the version byte and the rest of the buffer is
\* ignored: when a stream decodes successfully, the same stream with bytes appended
\* decodes successfully to the same result.
C30_TrailingBytesIgnored ==
    \A i, j \in DOMAIN history :
        (history[i].result.k = "Ok" /\ IsPrefix(history[i].input, history[j].input))
            => history[j].result = history[i].result
\* an empty array, decoded again with a TableRef8 1 appended
C30_Witness ==
    /\ Returned
    /\ Len(history) = 2
    /\ history[1].input = <<1, 10>>
    /\ history[1].result.k = "Ok"
    /\ history[2].input = <<1, 10, 232, 1>>
    /\ history[2].result = history[1].result

\* the parser state after the version byte
AfterVersion == [ParserState_new EXCEPT !.pos = 1]
\* the header parser of each alternative of any_object, and the alternative itself
Headers ==
    <<tagged_byte(<<1>>, 1, AfterVersion), tagged_byte(<<0, 0, 1>>, 3, AfterVersion),
      small_object_header(AfterVersion), large_object_header(AfterVersion)>>
Alternatives ==
    <<deserialize_ushort(AfterVersion), deserialize_medint(AfterVersion),
      deserialize_small_object(AfterVersion), deserialize_large_object(AfterVersion)>>
Accepting == {i \in 1..4 : Headers[i].k = "Ok"}
\* the alternative the claim assigns to a first byte
ClassOf(b) ==
    IF b % 2 = 1 THEN 1 ELSE IF b % 8 = 4 THEN 2 ELSE IF b % 4 = 2 THEN 3 ELSE 4

\* C29: the tag dispatch of any_object partitions the 256 byte values: every first
\* byte is accepted by exactly one of the four object parsers (bit 0 set: packed u7;
\* low three bits 100: packed i12; low two bits 10: small object; low three bits 000:
\* large object), no header is rejected for its type code or tag, and the decode
\* returns what the accepting parser alone returns, whatever the order of the
\* alternatives.
C29_TagPartition ==
    (Returned /\ Len(input) = 3 /\ input[1] <= 2) =>
        /\ Accepting = {ClassOf(input[2])}
        /\ \A i \in Accepting :
               \E r \in {Alternatives[i]} :
                   /\ (r.k = "Ok") = (result.k = "Ok")
                   /\ (r.k = "Panic") = (result.k = "Panic")
                   /\ r.k = "Ok" => result.v = r.v
                   /\ r.k \in {"Error", "Failure"} =>
                          \A e \in DOMAIN r.errs : \E f \in DOMAIN result.repr : result.repr[f] = r.errs[e]
\* 01 06: a small object whose low three bits are 110, an empty keyed table
C29_Witness ==
    /\ Returned
    /\ input = <<1, 6, 0>>
    /\ Accepting = {3}
    /\ result = [k |-> "Ok", v |-> TableV(Named(EmptyMap))]

RECURSIVE HasEmptyTable(_)
\* Table::Empty occurs in a Value, at any depth
HasEmptyTable(v) ==
    /\ v.t = "Table"
    /\ \/ v.tb.k = "Empty"
       \/ v.tb.k \in {"Array", "MixedTable"} /\ \E i \in DOMAIN v.tb.a : HasEmptyTable(v.tb.a[i])
       \/ v.tb.k \in {"Named", "MixedTable"} /\ \E key \in DOMAIN v.tb.m : HasEmptyTable(v.tb.m[key])

\* the decode returned the table tb and appended it to the Table table
DecodedAndStored(tb) == result = [k |-> "Ok", v |-> TableV(tb)] /\ table_refs = <<tb>>

\* C28: the binary deserializer never produces Table::Empty.  An array object with
\* count 0 decodes to FloatArray of length 0, a keyed table with count 0 to Named with
\* no entries, a Mixed object with both counts 0 to a Mixed table of two empty parts,
\* and each of them is appended to the Table table.
C28_NoEmptyTable ==
    (Returned /\ Len(input) = 3 /\ input[1] <= 2) =>
        /\ result.k = "Ok" => ~HasEmptyTable(result.v)
        /\ \A i \in DOMAIN table_refs : ~HasEmptyTable(TableV(table_refs[i]))
        /\ (input[2] = 10 \/ (input[2] = 160 /\ input[3] = 0))
               => DecodedAndStored(FloatArray(<<>>))
        /\ (input[2] = 6 \/ (input[2] = 136 /\ input[3] = 0))
               => DecodedAndStored(Named(EmptyMap))
        /\ input[2] = 14 => DecodedAndStored(MixedTable(<<>>, EmptyMap))
\* 01 a0 00: Array8 with count 0 was decoded to the empty FloatArray and stored
C28_Witness ==
    /\ Returned
    /\ input = <<1, 160, 0>>
    /\ DecodedAndStored(FloatArray(<<>>))

\* the index an object takes in its table: its rank among the events of its kind
IndexOf(i) == Cardinality({k \in 1..i : evs[k].op = evs[i].op})
\* the bytes of a lie within the content of b
Inside(a, b) == b.start < a.start /\ a.end <= b.end
TableEvents == {i \in DOMAIN evs : evs[i].op = "tbl"}
StringEvents == {i \in DOMAIN evs : evs[i].op = "str"}

\* C27: back-reference indices follow the order in which decoding completes.  A table
\* is appended to the Table table after everything inside it was decoded, so a table
\* nested in another has the smaller index, and a back-reference inside a table
\* resolves to an index below that of every table that encloses it, never to a table
\* still being decoded.  Strings take their indices in the order their bytes occur.
C27_CompletionOrder ==
    Returned =>
        /\ \A i \in TableEvents :
               /\ IndexOf(i) <= Len(table_refs)
               /\ table_refs[IndexOf(i)] = evs[i].val.tb
               /\ \A j \in TableEvents : Inside(evs[i], evs[j]) => IndexOf(i) < IndexOf(j)
        /\ \A i \in DOMAIN evs :
               (evs[i].op = "tref" /\ evs[i].hit) =>
                   /\ evs[i].val = TableV(table_refs[evs[i].key])
                   /\ \A j \in TableEvents : Inside(evs[i], evs[j]) => evs[i].key < IndexOf(j)
        /\ \A i \in StringEvents :
               /\ IndexOf(i) <= Len(string_refs)
               /\ string_refs[IndexOf(i)] = evs[i].val.s
               /\ \A j \in StringEvents : i < j => evs[i].end <= evs[j].start
\* 01 3a 0a 06 e8 01: an array of [], {} and a TableRef8 1 that resolved to the []
C27_Witness ==
    /\ Returned
    /\ input = <<1, 58, 10, 6, 232, 1>>
    /\ result.k = "Ok"
    /\ Len(table_refs) = 3
    /\ \E i \in DOMAIN evs, j \in TableEvents :
           evs[i].op = "tref" /\ evs[i].hit /\ Inside(evs[i], evs[j]) /\ IndexOf(j) = 3
    /\ \E i, j \in TableEvents : Inside(evs[i], evs[j])

-----------------------------------------------------------------------------
(* The decoder of parser/deserialize.rs, the one parse_compressed_recording calls.  *)
(* byte, version_byte, tagged_byte, deserialize_ushort, deserialize_medint,        *)
(* small_object_header, large_object_header, string and float read as in the crate; *)
(* the definitions below are the functions that differ, under the name of the      *)
(* function with parser_ before it.  It keeps no reference tables.                  *)

\* LargeObjectHeader::bytes, by tag number
parser_bytes(header) ==
    CASE header \in {14, 17, 20, 26, 29, 10, 11} -> 1
      [] header \in {15, 18, 21, 27, 30, 1, 2} -> 2
      [] header \in {16, 19, 22, 28, 31, 3, 4} -> 3
      [] header \in {5, 6} -> 4
      [] header \in {7, 8} -> 7
      [] header = 9 -> 8
      [] header \in {0, 12, 13} -> 0
      [] header = 23 -> 2
      [] header = 24 -> 4
      [] header = 25 -> 6

\* int(bytes): widths 1, 2, 3, 4 and 8 have an arm, any other is unimplemented!();
\* the target types (u32 for a count, i64 for a value of at most 4 bytes) hold every
\* number of the widths read.  The value is the bytes read.
parser_int(nbytes, ps) ==
    IF nbytes \in {1, 2, 3, 4, 8} THEN take(nbytes, ps)
    ELSE Panic(ps, "not a supported integer size")

RECURSIVE parser_any_object(_)
RECURSIVE parser_array_loop(_, _, _, _)
RECURSIVE parser_table_loop(_, _, _, _)

parser_array_loop(n, entry_count, ps, res) ==
    IF n = entry_count THEN Ok(ps, res)
    ELSE Only({IF r.k = "Ok"
               THEN Only({parser_array_loop(n + 1, entry_count, r.ps, v) :
                          v \in {Append(res, r.v)}})
               ELSE IF r.k = "Error" THEN Err("Error", r.ps, AppendError(ps, "ManyMN", r.errs))
               ELSE r : r \in {parser_any_object(ps)}})

\* Read count objects into an array: many_m_n(count, count, any_object)
parser_array(entry_count, ps) == parser_array_loop(0, entry_count, ps, <<>>)

\* context("found non-string key in non-array table", map_res(any_object, ..)): a key
\* is a String, every other value is Err(())
parser_table_key(ps) ==
    Only({IF r.k = "Ok" /\ r.v.t = "String" THEN Ok(r.ps, r.v.s)
          ELSE context("found non-string key in non-array table", ps,
                       IF r.k = "Ok" THEN Err("Error", r.ps, ErrorAt(ps, "MapRes")) ELSE r) :
          r \in {parser_any_object(ps)}})

parser_table_loop(n, entry_count, ps, map) ==
    IF n = entry_count THEN Ok(ps, map)
    ELSE Only({Only({IF r.k = "Ok"
                     THEN Only({parser_table_loop(n + 1, entry_count, r.ps, mp) :
                                mp \in {Insert(map, kr.v, r.v)}})
                     ELSE IF r.k = "Error"
                     THEN Err("Error", r.ps, AppendError(ps, "ManyMN", r.errs))
                     ELSE r :
                     r \in {IF kr.k = "Ok" THEN parser_any_object(kr.ps) ELSE kr}}) :
               kr \in {parser_table_key(ps)}})

\* Read count keys from a table into a hashmap: fold_many_m_n(count, count, pair(..))
parser_table(entry_count, ps) == parser_table_loop(0, entry_count, ps, EmptyMap)

\* (array_count, keyed_count) of a mixed table
destructure_mixed_counts(c) == <<(c % 4) + 1, (c \div 4) + 1>>

parser_mixed_table(mixed_counts, ps) ==
    Only({Only({Only({IF t.k = "Ok" THEN Ok(t.ps, TableV(MixedTable(a.v, t.v))) ELSE t :
                      t \in {IF a.k = "Ok" THEN parser_table(c[2], a.ps) ELSE a}}) :
                a \in {parser_array(c[1], ps)}}) :
          c \in {destructure_mixed_counts(mixed_counts)}})

parser_deserialize_small_object(ps) ==
    Only({IF h.k # "Ok" THEN h
          ELSE CASE h.v.type_tag = 0 ->
                      Only({cut(IF r.k = "Ok" THEN Ok(r.ps, String(r.v)) ELSE r) :
                            r \in {string(h.v.count, h.ps)}})
                 [] h.v.type_tag = 2 ->
                      Only({cut(IF r.k = "Ok" THEN Ok(r.ps, TableV(Array(r.v))) ELSE r) :
                            r \in {parser_array(h.v.count, h.ps)}})
                 [] h.v.type_tag = 1 ->
                      Only({cut(IF r.k = "Ok" THEN Ok(r.ps, TableV(Named(r.v))) ELSE r) :
                            r \in {parser_table(h.v.count, h.ps)}})
                 [] h.v.type_tag = 3 ->
                      Only({cut(r) : r \in {parser_mixed_table(h.v.count, h.ps)}}) :
          h \in {small_object_header(ps)}})

\* flat_map(int(bytes), p): the number read before p runs
parser_counted(nbytes, ps) ==
    Only({IF c.k = "Ok" THEN Ok(c.ps, BE(c.v)) ELSE c : c \in {parser_int(nbytes, ps)}})

\* the arm of deserialize_large_object for the given header, the input after it `rest`
parser_large_object(header, rest) ==
    CASE header = 0 -> Ok(rest, Nil)
      [] header = 12 -> Ok(rest, Bool(TRUE))
      [] header = 13 -> Ok(rest, Bool(FALSE))
      [] header \in {1, 2, 3, 4, 5, 6, 7, 8} ->
           Only({cut(IF r.k = "Ok" THEN Ok(r.ps, IntV(header % 2 = 0, r.v)) ELSE r) :
                 r \in {parser_int(parser_bytes(header), rest)}})
      [] header \in {14, 15, 16} ->
           Only({Only({cut(IF r.k = "Ok" THEN Ok(r.ps, String(r.v)) ELSE r) :
                       r \in {IF c.k = "Ok" THEN string(c.v, c.ps) ELSE c}}) :
                 c \in {parser_counted(parser_bytes(header), rest)}})
      [] header \in {17, 18, 19} ->
           Only({Only({cut(IF r.k = "Ok" THEN Ok(r.ps, TableV(Named(r.v))) ELSE r) :
                       r \in {IF c.k = "Ok" THEN parser_table(c.v, c.ps) ELSE c}}) :
                 c \in {parser_counted(parser_bytes(header), rest)}})
      [] header \in {20, 21, 22} ->
           Only({Only({cut(IF r.k = "Ok" THEN Ok(r.ps, TableV(Array(r.v))) ELSE r) :
                       r \in {IF c.k = "Ok" THEN parser_array(c.v, c.ps) ELSE c}}) :
                 c \in {parser_counted(parser_bytes(header), rest)}})
      [] header \in {23, 24, 25} ->
           Only({Only({cut(r) :
                       r \in {IF c.k = "Ok" THEN parser_mixed_table(c.v, c.ps) ELSE c}}) :
                 c \in {parser_counted(parser_bytes(header), rest)}})
      [] header = 9 ->
           Only({cut(IF r.k = "Ok" THEN Ok(r.ps, Float(r.v)) ELSE r) : r \in {float(rest)}})
      [] header \in {10, 11} -> Panic(rest, "not implemented")
      [] header \in 26..31 -> Panic(rest, "not implemented: refs are not implemented yet")

parser_deserialize_large_object(ps) ==
    Only({IF h.k # "Ok" THEN h ELSE parser_large_object(h.v, h.ps) :
          h \in {large_object_header(ps)}})

\* alt of the four object parsers, each under its context
parser_any_object(ps) ==
    Only({IF r1.k # "Error" THEN r1
     ELSE Only({IF r2.k # "Error" THEN r2
      ELSE Only({IF r3.k # "Error" THEN r3
       ELSE Only({IF r4.k # "Error" THEN r4
                  ELSE context("no object type matched", ps,
                               Err("Error", r4.ps, AppendError(ps, "Alt", r4.errs))) :
             r4 \in {context("parsing large object", ps, parser_deserialize_large_object(ps))}}) :
           r3 \in {context("parsing small object", ps, parser_deserialize_small_object(ps))}}) :
         r2 \in {context("parsing packed u12", ps, deserialize_medint(ps))}}) :
     r1 \in {context("parsing packed u7", ps, deserialize_ushort(ps))}})

\* preceded(version_byte, any_object)
parser_deserialize_internal(ps) ==
    Only({IF v.k = "Ok" THEN parser_any_object(v.ps) ELSE v : v \in {version_byte(ps)}})

\* deserialize(input) of parser/deserialize.rs: Ok(value), or SerializeParseError with
\* one line per entry of the nom error, each "<kind> in byte 0" since the offset is
\* taken of the entry's input against itself
parser_deserialize ==
    Only({CASE r.k = "Ok" -> [k |-> "Ok", v |-> r.v]
            [] r.k = "Panic" -> [k |-> "Panic", msg |-> r.errs[1].kind]
            [] OTHER -> [k |-> "Err", type |-> "SerializeParseError",
                         repr |-> [i \in DOMAIN r.errs |-> [at |-> 0, kind |-> r.errs[i].kind]]] :
          r \in {parser_deserialize_internal(ParserState_new)}})

-----------------------------------------------------------------------------
(* parse_compressed_recording of parser/mod.rs *)

DecompressionError == [t |-> "DecompressionError"]
DeserializeError == [t |-> "DeserializeError"]

\* the scripts field: a Named table is mapped entry by entry and collected into a
\* Result, where the first failure ends it (the maps of the model hold at most one
\* entry that fails); any other value is unimplemented!()
scripts_of(value) ==
    IF IsNamed(value) THEN try_fold("TrackerData", value.tb.m, DOMAIN value.tb.m, EmptyMap)
    ELSE MPanic("not implemented")

\* the struct expression of the Named arm: onUpdateDelay is built first, then scripts
recording_of(map) ==
    IF stringify.onUpdateDelay \notin DOMAIN map
    THEN MErr(MissingKey("Recording", "onUpdateDelay"))
    ELSE Only({
        IF d.k # "Ok" THEN d
        ELSE IF stringify.scripts \notin DOMAIN map
        THEN MErr(MissingKey("Recording", "scripts"))
        ELSE Only({IF s.k # "Ok" THEN s
                   ELSE MOk([t |-> "ParsedRecording",
                             f |-> [onUpdateDelay |-> d.v, scripts |-> s.v]]) :
                   s \in {scripts_of(map[stringify.scripts])}}) :
        d \in {try_from("TrackerData", map[stringify.onUpdateDelay])}})

\* parse_compressed_recording(data), given what decompress(data) returned and, when
\* that is Ok, the decoder's result on the bytes
parse_compressed_recording(decompressed, data) ==
    IF decompressed.k = "Panic" THEN MPanic(decompressed.msg)
    ELSE IF decompressed.k # "Ok" THEN MErr(DecompressionError)
    ELSE IF data.k = "Panic" THEN MPanic(data.msg)
    ELSE IF data.k # "Ok" THEN MErr(DeserializeError)
    ELSE IF IsNamed(data.v) THEN recording_of(data.v.tb.m)
    ELSE MPanic("not implemented")

\* the bytes LibSerialize writes: a packed integer below 128, a string, a table and an
\* array of at most 15 entries, a float
PackInt(n) == <<2 * n + 1>>
PackStr(s) == <<16 * Len(s) + 2>> \o s
PackFloat(bits) == <<72>> \o bits
RECURSIVE Flat(_)
Flat(items) == IF items = <<>> THEN <<>> ELSE items[1] \o Flat(Tail(items))
PackArray(items) == <<16 * Len(items) + 10>> \o Flat(items)
\* no bytes at all: the entry is left out
Skipped == <<0 - 1>>
\* pairs of a key name and the bytes of its value; Skipped values are left out
PackTable(pairs) ==
    Only({<<16 * Len(kept) + 6>> \o Flat([i \in DOMAIN kept |-> PackStr(kept[i][1]) \o kept[i][2]]) :
          kept \in {SelectSeq(pairs, LAMBDA p : p[2] # Skipped)}})

PackedStats ==
    PackTable(<< <<stringify.mean, PackFloat(F64One)>>, <<stringify.samples, PackArray(<<>>)>> >>)
\* a TrackerData, its calls as given
PackedTracker(calls) ==
    PackTable(<< <<stringify.stats, PackedStats>>, <<stringify.calls, calls>>,
                 <<stringify.commits, PackInt(2)>>, <<stringify.total_time, PackInt(3)>>,
                 <<stringify.top5, PackArray(<<PackFloat(F64Half)>>)>> >>)

\* what the top level holds that is no Named table, and streams that do not decode
BareTops ==
    { <<0>>, PackInt(1), PackStr(<<97>>), PackFloat(F64One), <<96>>, PackArray(<<>>),
      PackArray(<<PackInt(1)>>), PackArray(<<PackedTracker(PackInt(1))>>), <<30, 0, 0>>,
      <<>>, <<50, 97>>, <<232, 1>>, <<80, 1, 49>>, <<56, 0, 0, 0, 0, 0, 0, 1>> }
DelayTops == {Skipped, PackedTracker(PackInt(1)), PackedTracker(Skipped), PackInt(1), <<0>>}
ScriptTops ==
    { Skipped, PackTable(<<>>), PackTable(<< <<<<97>>, PackedTracker(PackInt(1))>> >>),
      PackTable(<< <<<<97>>, PackedTracker(PackInt(1))>>, <<<<98>>, PackInt(1)>> >>),
      PackArray(<<>>), PackArray(<<PackedTracker(PackInt(1))>>), PackInt(1), <<0>>,
      PackStr(<<97>>), <<14, 1, 50, 97, 1>> }
NamedTops ==
    { PackTable(<< <<stringify.onUpdateDelay, d>>, <<stringify.scripts, s>>,
                   <<stringify.kind, x>> >>) :
      d \in DelayTops, s \in ScriptTops, x \in {Skipped, PackInt(1)} }
RecordingInputs == {<<1>> \o s : s \in BareTops \cup NamedTops}

RecordingInit == \E inp \in RecordingInputs : TextIdle(inp)

\* one call of parse_compressed_recording.  input holds the bytes inflate yields for
\* the text handed in; whether decompress returns them or an error is drawn here.
ParseCompressedRecording ==
    /\ pc = "call"
    /\ \E decompressed \in {POk(input), DeflateError, InvalidPrintByte(32)} :
       \E data \in {parser_deserialize} :
           result' = [op |-> "parse_compressed_recording",
                      decompressed |-> decompressed.k,
                      data |-> data,
                      r |-> parse_compressed_recording(decompressed, data)]
    /\ pc' = "returned"
    /\ UNCHANGED <<input, string_refs, table_refs, evs, started, history, overflow_checks, recording>>

RecordingNext == ParseCompressedRecording
RecordingSpec == RecordingInit /\ [][RecordingNext]_vars

\* the call went as far as the match on the decoded value
Decompressed ==
    /\ Returned
    /\ result.op = "parse_compressed_recording"
    /\ result.decompressed = "Ok"
    /\ result.data.k = "Ok"
IsBadType(r) == r.k = "Err" /\ r.e.t = "BadType"
IsMissingKey(r, key) == r = MErr(MissingKey("Recording", key))
HasKey(value, key) == stringify[key] \in DOMAIN value.tb.m
DelayMaps(value) ==
    /\ HasKey(value, "onUpdateDelay")
    /\ try_from("TrackerData", value.tb.m[stringify.onUpdateDelay]).k = "Ok"

\* C25: parse_compressed_recording reports wrong-typed input as a returned error: a
\* decoded top-level value that is no Named table yields BadType, and so does a scripts
\* entry that is no Named table (next to an onUpdateDelay that maps); the call does not
\* abort.  An absent onUpdateDelay, and an absent scripts next to an onUpdateDelay that
\* maps, yield MissingKey.
C25_WrongTypeReturned ==
    Decompressed =>
        /\ result.r.k # "Panic"
        /\ ~IsNamed(result.data.v) => IsBadType(result.r)
        /\ IsNamed(result.data.v) =>
               /\ ~HasKey(result.data.v, "onUpdateDelay") => IsMissingKey(result.r, "onUpdateDelay")
               /\ (DelayMaps(result.data.v) /\ ~HasKey(result.data.v, "scripts"))
                      => IsMissingKey(result.r, "scripts")
               /\ (/\ DelayMaps(result.data.v)
                   /\ HasKey(result.data.v, "scripts")
                   /\ ~IsNamed(result.data.v.tb.m[stringify.scripts]))
                      => IsBadType(result.r)

-----------------------------------------------------------------------------
(* A Recording whose data is asked for in the parsed form.  The text layer leaves  *)
(* the data Unparsed (TryFrom<Value> for RecordingData); the accessor that upgrades *)
(* it is the memoizing slot the specification describes, and the decode it runs is *)
(* parse_compressed_recording.  input stands for the bytes of the Unparsed blob.    *)

Unparsed == [t |-> "Unparsed"]
Parsed(v) == [t |-> "Parsed", v |-> v]

\* fault variant of parsed: the decode runs on every request
parsed_again(data, decompressed, decoded) ==
    Only({[r |-> r, ran |-> TRUE, data |-> IF r.k = "Ok" THEN Parsed(r.v) ELSE data] :
          r \in {parse_compressed_recording(decompressed, decoded)}})

\* the request for the parsed form: a slot that holds Parsed answers from it; an
\* Unparsed one runs the decode and, when it succeeds, keeps the result
parsed(data, decompressed, decoded) ==
    IF data.t = "Parsed" THEN [r |-> MOk(data.v), ran |-> FALSE, data |-> data]
    ELSE Only({[r |-> r, ran |-> TRUE, data |-> IF r.k = "Ok" THEN Parsed(r.v) ELSE data] :
               r \in {parse_compressed_recording(decompressed, decoded)}})

LazyInit ==
    \E inp \in RecordingInputs :
        /\ input = inp
        /\ pc = "call"
        /\ result = [k |-> "None"]
        /\ string_refs = <<>>
        /\ table_refs = <<>>
        /\ evs = <<>>
        /\ started = State_new
        /\ history = <<>>
        /\ overflow_checks = FALSE
        /\ recording = Unparsed

\* one request; whether decompress returns the bytes or an error is drawn here
RequestParsed ==
    /\ pc = "call"
    /\ \E decompressed \in {POk(input), DeflateError} :
       \E p \in {parsed(recording, decompressed, parser_deserialize)} :
           /\ result' = [op |-> "parsed", r |-> p.r]
           /\ recording' = p.data
           /\ history' = Append(history, [r |-> p.r, ran |-> p.ran])
           /\ pc' = IF p.r.k = "Panic" THEN "aborted" ELSE "returned"
    /\ UNCHANGED <<input, string_refs, table_refs, evs, started, overflow_checks>>

\* the caller asks again
RequestAgain ==
    /\ pc = "returned"
    /\ Len(history) < MaxRequests
    /\ pc' = "call"
    /\ UNCHANGED <<input, result, string_refs, table_refs, evs, started, history,
                   overflow_checks, recording>>

LazyNext == RequestParsed \/ RequestAgain
LazySpec == LazyInit /\ [][LazyNext]_vars

\* C24: the upgrade from Unparsed to Parsed is memoized per Recording: after the first
\* successful request the Recording holds the parsed result, every later request
\* returns that same value without running the decode again, and the data never
\* goes back to Unparsed.
C24_Memoized ==
    \A i \in DOMAIN history :
        history[i].r.k = "Ok" =>
            /\ recording = Parsed(history[i].r.v)
            /\ \A j \in DOMAIN history :
                   j > i => history[j].r = history[i].r /\ ~history[j].ran
\* a decode that fails, one that succeeds, and a third request answered from the slot
C24_Witness ==
    /\ Len(history) = 3
    /\ history[1].r.k = "Err" /\ history[1].ran
    /\ history[2].r.k = "Ok" /\ history[2].ran
    /\ history[3].r = history[2].r /\ ~history[3].ran
    /\ recording = Parsed(history[2].r.v)

-----------------------------------------------------------------------------
(* Tables that hold keys their struct does not define *)

\* the keys added: none, one no struct knows, and two more that other structs define
ExtraKeys ==
    { EmptyMap,
      Insert(EmptyMap, <<120>>, Nil),
      Insert(Insert(Insert(EmptyMap, <<120>>, IntOf(1)), stringify.kind, String(stringify.raid)),
             stringify.data, TableV(Empty)) }
\* the table value with the entries of extra added under the keys it does not hold
WithExtra(value, extra) ==
    TableV(Named([c \in DOMAIN value.tb.m \cup DOMAIN extra |->
                     IF c \in DOMAIN value.tb.m THEN value.tb.m[c] ELSE extra[c]]))

PlainTracker ==
    NamedOf([stats |-> NamedOf([mean |-> Float(F64One), samples |-> TableV(Empty)]),
             calls |-> IntOf(1), commits |-> IntOf(2), total_time |-> Float(F64Half),
             top5 |-> TableV(Empty)])
ParsedRecordingValues ==
    { NamedOf(rec) : rec \in
        [ scripts : {Absent, TableV(Empty), TableV(Named(Insert(EmptyMap, <<97>>, PlainTracker))),
                     IntOf(1)},
          onUpdateDelay : {Absent, PlainTracker, Nil} ] }
SavedVariablesValues ==
    { NamedOf(rec) : rec \in
        [ recordings : {Absent, TableV(Empty), IntOf(1),
                        TableV(Array(<<NamedOf([encounter |->
                                                    NamedOf([kind |-> String(stringify.manual),
                                                             startTime |-> IntOf(7),
                                                             endTime |-> IntOf(9)]),
                                                data |-> String(<<97>>)])>>))} ] }
LenientValues ==
    { WithExtra(v, x) :
      v \in StatsValues \cup TrackerDataValues \cup ParsedRecordingValues \cup SavedVariablesValues,
      x \in ExtraKeys }

LenientInit == \E v \in LenientValues : TextIdle(v)
LenientSpec == LenientInit /\ [][MapperNext]_vars

\* the schema structs mapped field by field, and the keys each defines
SchemaStructs == {"Stats", "TrackerData", "ParsedRecording", "SavedVariables"}
DefinedKeys(ty) == {stringify[Fields[ty][i].key] : i \in DOMAIN Fields[ty]}
\* the table without the keys its struct does not define
OnlyDefined(ty, value) ==
    TableV(Named([c \in DOMAIN value.tb.m \cap DefinedKeys(ty) |-> value.tb.m[c]]))

\* C23: the schema mapper is lenient on unknown keys: when a Named table maps
\* successfully to a schema struct, the same table with further keys the struct does
\* not define maps successfully too, to the same result.
C23_UnknownKeysIgnored ==
    \A ty \in SchemaStructs :
        (Mapped(ty) /\ IsNamed(input)) =>
            \A known \in {try_from(ty, OnlyDefined(ty, input))} :
                known.k = "Ok" => result.r = known
\* a Stats table with three keys Stats does not define, mapped as the table without them
C23_Witness ==
    /\ Mapped("Stats")
    /\ IsNamed(input)
    /\ {<<120>>, stringify.kind, stringify.data} \subseteq DOMAIN input.tb.m
    /\ result.r.k = "Ok"
    /\ result.r = try_from("Stats", OnlyDefined("Stats", input))

-----------------------------------------------------------------------------
(* The derived Deserialize of parser/types.rs, run on the serde data model.  A      *)
(* content is what a Deserializer presents: Nil (unit), Bool, Int, Float, String as *)
(* the Values are, a sequence SeqC(a), or a map MapC(m) from contents to contents.  *)
(* The struct maps of the model have String keys, as ValueDeserializer gives them.  *)

SeqC(a) == [t |-> "Seq", a |-> a]
MapC(m) == [t |-> "Map", m |-> m]
SerdeCustom(msg) == MErr([t |-> "SerdeCustom", msg |-> msg])

RECURSIVE content_of(_)
RECURSIVE contents_of(_, _, _)
\* the elements of a table's array part, the first failure ending it
contents_of(a, i, acc) ==
    IF i > Len(a) THEN MOk(SeqC(acc))
    ELSE Only({IF c.k # "Ok" THEN c
               ELSE Only({contents_of(a, i + 1, x) : x \in {Append(acc, c.v)}}) :
               c \in {content_of(a[i])}})

\* ValueDeserializer::deserialize_any, read to the end by a visitor that keeps all it
\* is given: a table with both parts is ParseError::MixedTable wherever it lies
content_of(value) ==
    IF value.t # "Table" THEN MOk(value)
    ELSE CASE value.tb.k = "Empty" -> MOk(SeqC(<<>>))
           [] value.tb.k = "Array" -> contents_of(value.tb.a, 1, <<>>)
           [] value.tb.k = "FloatArray" ->
                MOk(SeqC([i \in DOMAIN value.tb.fa |-> Float(value.tb.fa[i])]))
           [] value.tb.k = "Named" ->
                IF \E key \in DOMAIN value.tb.m : content_of(value.tb.m[key]).k # "Ok"
                THEN MErr([t |-> "MixedTable"])
                ELSE MOk(MapC([key \in {String(s) : s \in DOMAIN value.tb.m} |->
                                 content_of(value.tb.m[key.s]).v]))
           [] value.tb.k = "MixedTable" -> MErr([t |-> "MixedTable"])

\* the names of the fields, renamed where serde(rename) says so, as characters
FieldName ==
    [ stats |-> <<115, 116, 97, 116, 115>>,
      top5 |-> <<116, 111, 112, 53>>,
      sketch |-> <<115, 107, 101, 116, 99, 104>>,
      calls |-> <<99, 97, 108, 108, 115>>,
      commits |-> <<99, 111, 109, 109, 105, 116, 115>>,
      officialTime |-> <<111, 102, 102, 105, 99, 105, 97, 108, 84, 105, 109, 101>>,
      dependent |-> <<100, 101, 112, 101, 110, 100, 101, 110, 116>>,
      total_time |-> <<116, 111, 116, 97, 108, 95, 116, 105, 109, 101>>,
      mean |-> <<109, 101, 97, 110>>,
      variance |-> <<118, 97, 114, 105, 97, 110, 99, 101>>,
      skew |-> <<115, 107, 101, 119>>,
      samples |-> <<115, 97, 109, 112, 108, 101, 115>>,
      quantiles |-> <<113, 117, 97, 110, 116, 105, 108, 101, 115>>,
      outliers |-> <<111, 117, 116, 108, 105, 101, 114, 115>>,
      bins |-> <<98, 105, 110, 115>>,
      count |-> <<99, 111, 117, 110, 116>>,
      trivial_count |-> <<116, 114, 105, 118, 105, 97, 108, 95, 99, 111, 117, 110, 116>> ]

\* the fields of each struct in declaration order; a field of kind "opt" is an Option
\* (None when missing), "default" is serde(default), "req" is any other
SerdeFields ==
    [ TrackerCore |->
          << [key |-> "calls", ty |-> "u64", kind |-> "req"],
             [key |-> "commits", ty |-> "u64", kind |-> "req"],
             [key |-> "officialTime", ty |-> "Option_f64", kind |-> "opt"],
             [key |-> "dependent", ty |-> "Option_bool", kind |-> "opt"],
             [key |-> "total_time", ty |-> "f64", kind |-> "req"] >>,
      SketchStats |->
          << [key |-> "outliers", ty |-> "Vec_f64", kind |-> "req"],
             [key |-> "bins", ty |-> "bins", kind |-> "default"],
             [key |-> "count", ty |-> "u64", kind |-> "req"],
             [key |-> "trivial_count", ty |-> "u64", kind |-> "req"] >>,
      OldStyle |->
          << [key |-> "stats", ty |-> "Stats", kind |-> "req"],
             [key |-> "top5", ty |-> "Vec_f64", kind |-> "req"] >>,
      NewStyle |->
          << [key |-> "sketch", ty |-> "SketchStats", kind |-> "req"] >>,
      Stats |->
          << [key |-> "mean", ty |-> "f64", kind |-> "req"],
             [key |-> "variance", ty |-> "Option_f64", kind |-> "opt"],
             [key |-> "skew", ty |-> "Option_f64", kind |-> "opt"],
             [key |-> "samples", ty |-> "Vec_f64", kind |-> "req"],
             [key |-> "quantiles", ty |-> "Option_HashMap_f64", kind |-> "opt"] >> ]

\* u64 from a content: an integer that is not negative
de_u64(c) ==
    IF c.t # "Int" THEN SerdeCustom("invalid type")
    ELSE IF c.neg THEN SerdeCustom("invalid value")
    ELSE MOk([t |-> "u64", mag |-> c.mag])

\* f64 from a content: a float, or an integer as the float of the same number
de_f64(c) ==
    IF c.t = "Float" THEN MOk(c.f)
    ELSE IF c.t = "Int" THEN MOk(i64_as_f64(c))
    ELSE SerdeCustom("invalid type")

de_bool(c) == IF c.t = "Bool" THEN MOk(c.b) ELSE SerdeCustom("invalid type")

RECURSIVE significant(_)
\* decimal digits without their leading zeros
significant(digits) ==
    IF digits # <<>> /\ digits[1] = 48 THEN significant(Tail(digits)) ELSE digits

\* the number is at most usize::MAX of the wasm32 target, 4294967295
fits_usize(digits) ==
    \/ Len(digits) < 10
    \/ /\ Len(digits) = 10
       /\ \A i \in DOMAIN digits :
              (\A j \in 1..(i - 1) : digits[j] = <<52, 50, 57, 52, 57, 54, 55, 50, 57, 53>>[j])
                  => digits[i] <= <<52, 50, 57, 52, 57, 54, 55, 50, 57, 53>>[i]

\* str::parse::<usize>: an optional + and then decimal digits, at least one, of a
\* number a usize of the wasm32 target holds
parse_usize(s) ==
    Only({IF digits # <<>> /\ (\A i \in DOMAIN digits : IsDigit(digits[i]))
             /\ fits_usize(significant(digits))
          THEN MOk(DecimalValue(digits))
          ELSE SerdeCustom("invalid digit found in string") :
          digits \in {IF s # <<>> /\ s[1] = 43 THEN Tail(s) ELSE s}})

\* MixedBinKey, untagged: Integer(u64), else String(String)
MixedBinKey(c) ==
    IF de_u64(c).k = "Ok" THEN MOk([t |-> "Integer", ix |-> BE(c.mag)])
    ELSE IF c.t = "String" THEN MOk([t |-> "String", s |-> c.s])
    ELSE SerdeCustom("data did not match any variant of untagged enum MixedBinKey")

\* the index a key stands for: ix as usize (the indices of the model are far below
\* 2^32, where the cast changes nothing), or s.parse::<usize>()
index_of(key) == IF key.t = "Integer" THEN MOk(key.ix) ELSE parse_usize(key.s)

F64Zero == <<0, 0, 0, 0, 0, 0, 0, 0>>

\* fault variant of bins_write: the array is resized to ix + 1 on every entry
bins_write_resized(vec, ix, value) ==
    [i \in 1..(ix + 1) |-> IF i = ix + 1 THEN value
                           ELSE IF i <= Len(vec) THEN vec[i] ELSE F64Zero]

\* if ix >= result.len() { result.resize(ix + 1, 0.0); }  result[ix] = value;
bins_write(vec, ix, value) ==
    Only({[resized EXCEPT ![ix + 1] = value] :
          resized \in {IF ix >= Len(vec)
                       THEN vec \o [i \in 1..(ix + 1 - Len(vec)) |-> F64Zero]
                       ELSE vec}})

RECURSIVE bins_fold(_, _, _, _)
\* for (ix, value) in map.into_iter(), the keys in the order `keys` they are visited in
bins_fold(map, keys, i, vec) ==
    IF i > Len(keys) THEN MOk(Some(vec))
    ELSE Only({IF ix.k # "Ok" THEN ix
               ELSE Only({bins_fold(map, keys, i + 1, r) :
                          r \in {bins_write(vec, ix.v, de_f64(map[keys[i]]).v)}}) :
               ix \in {index_of(MixedBinKey(keys[i]).v)}})

\* the keys of a map in the order a HashMap's iterator takes them: the order is not
\* fixed, ord lists every key in the order this run takes
visit_order(map, ord) == SelectSeq(ord, LAMBDA key : key \in DOMAIN map)

\* deserialize_bins: MixedBinType is untagged, Array(Vec<f64>) then
\* Mixed(HashMap<MixedBinKey, f64>)
deserialize_bins(c, ord) ==
    IF c.t = "Seq" /\ \A i \in DOMAIN c.a : de_f64(c.a[i]).k = "Ok"
    THEN MOk(Some([i \in DOMAIN c.a |-> de_f64(c.a[i]).v]))
    ELSE IF /\ c.t = "Map"
            /\ \A key \in DOMAIN c.m : MixedBinKey(key).k = "Ok" /\ de_f64(c.m[key]).k = "Ok"
    THEN bins_fold(c.m, visit_order(c.m, ord), 1, <<>>)
    ELSE SerdeCustom("data did not match any variant of untagged enum MixedBinType")

RECURSIVE de(_, _, _)

\* Option<T>: unit is None, anything else Some(T)
de_option(ty, c, ord) ==
    IF c.t = "Nil" THEN MOk(None)
    ELSE Only({IF r.k = "Ok" THEN MOk(Some(r.v)) ELSE r : r \in {de(ty, c, ord)}})

\* Vec<f64>: a sequence of f64
de_vec_f64(c) ==
    IF c.t = "Seq" /\ \A i \in DOMAIN c.a : de_f64(c.a[i]).k = "Ok"
    THEN MOk([i \in DOMAIN c.a |-> de_f64(c.a[i]).v])
    ELSE SerdeCustom("invalid type")

\* HashMap<String, f64>: a map with string keys and f64 values
de_hashmap_f64(c) ==
    IF /\ c.t = "Map"
       /\ \A key \in DOMAIN c.m : key.t = "String" /\ de_f64(c.m[key]).k = "Ok"
    THEN MOk([s \in {key.s : key \in DOMAIN c.m} |-> de_f64(c.m[String(s)]).v])
    ELSE SerdeCustom("invalid type")

RECURSIVE de_fields(_, _, _, _, _)
\* visit_map of a derived struct: each field from the entry under its name, the keys
\* no field has are passed over; a missing Option or default field is None, any other
\* missing field is an error
de_fields(map, fields, i, acc, ord) ==
    IF i > Len(fields) THEN MOk(acc)
    ELSE Only({
        IF String(FieldName[fld.key]) \notin DOMAIN map
        THEN IF fld.kind = "req" THEN SerdeCustom("missing field")
             ELSE Only({de_fields(map, fields, i + 1, a, ord) :
                        a \in {Insert(acc, fld.key, None)}})
        ELSE Only({IF r.k # "Ok" THEN r
                   ELSE Only({de_fields(map, fields, i + 1, a, ord) :
                              a \in {Insert(acc, fld.key, r.v)}}) :
                   r \in {de(fld.ty, map[String(FieldName[fld.key])], ord)}}) :
        fld \in {fields[i]}})

RECURSIVE de_elements(_, _, _, _, _)
\* visit_seq of a derived struct: the fields in declaration order; a missing element
\* is an error unless the field has a default, and so is an element too many
de_elements(a, fields, i, acc, ord) ==
    IF i > Len(fields)
    THEN IF Len(a) > Len(fields) THEN SerdeCustom("invalid length") ELSE MOk(acc)
    ELSE Only({
        IF i > Len(a)
        THEN IF fld.kind # "default" THEN SerdeCustom("invalid length")
             ELSE Only({de_elements(a, fields, i + 1, x, ord) :
                        x \in {Insert(acc, fld.key, None)}})
        ELSE Only({IF r.k # "Ok" THEN r
                   ELSE Only({de_elements(a, fields, i + 1, x, ord) :
                              x \in {Insert(acc, fld.key, r.v)}}) :
                   r \in {de(fld.ty, a[i], ord)}}) :
        fld \in {fields[i]}})

\* a derived struct without flattened fields: from a map or from a sequence
de_struct(ty, c, ord) ==
    Only({IF r.k = "Ok" THEN MOk([t |-> ty, f |-> r.v]) ELSE r :
          r \in {CASE c.t = "Map" -> de_fields(c.m, SerdeFields[ty], 1, EmptyMap, ord)
                   [] c.t = "Seq" -> de_elements(c.a, SerdeFields[ty], 1, EmptyMap, ord)
                   [] OTHER -> SerdeCustom("invalid type")}})

\* a variant of TrackerData: its own fields, and core: TrackerCore flattened, taken
\* from the entries of the same map; a map only
de_variant(variant, c, ord) ==
    IF c.t # "Map" THEN SerdeCustom("invalid type")
    ELSE Only({
        IF own.k # "Ok" THEN own
        ELSE Only({IF core.k # "Ok" THEN core
                   ELSE MOk([t |-> variant,
                             f |-> Insert(own.v, "core", [t |-> "TrackerCore", f |-> core.v])]) :
                   core \in {de_fields(c.m, SerdeFields.TrackerCore, 1, EmptyMap, ord)}}) :
        own \in {de_fields(c.m, SerdeFields[variant], 1, EmptyMap, ord)}})

\* fault variant of de_TrackerData: NewStyle is tried before OldStyle
de_TrackerData_new_first(c, ord) ==
    Only({IF new.k = "Ok" THEN new
          ELSE Only({IF old.k = "Ok" THEN old
                     ELSE SerdeCustom("data did not match any variant of untagged enum TrackerData") :
                     old \in {de_variant("OldStyle", c, ord)}}) :
          new \in {de_variant("NewStyle", c, ord)}})

\* TrackerData, untagged: the variants in the order the enum declares them, OldStyle
\* and then NewStyle; the first that deserializes is the result
de_TrackerData(c, ord) ==
    Only({IF old.k = "Ok" THEN old
          ELSE Only({IF new.k = "Ok" THEN new
                     ELSE SerdeCustom("data did not match any variant of untagged enum TrackerData") :
                     new \in {de_variant("NewStyle", c, ord)}}) :
          old \in {de_variant("OldStyle", c, ord)}})

\* <T as Deserialize>::deserialize on a content, T given by ty
de(ty, c, ord) ==
    CASE ty = "u64" -> de_u64(c)
      [] ty = "f64" -> de_f64(c)
      [] ty = "Option_f64" -> de_option("f64", c, ord)
      [] ty = "Option_bool" -> de_option("bool", c, ord)
      [] ty = "bool" -> de_bool(c)
      [] ty = "Vec_f64" -> de_vec_f64(c)
      [] ty = "HashMap_f64" -> de_hashmap_f64(c)
      [] ty = "Option_HashMap_f64" -> de_option("HashMap_f64", c, ord)
      [] ty = "bins" -> deserialize_bins(c, ord)
      [] ty \in {"Stats", "SketchStats"} -> de_struct(ty, c, ord)
      [] ty = "TrackerData" -> de_TrackerData(c, ord)

-----------------------------------------------------------------------------
(* TrackerData and SketchStats deserialized from what a Deserializer presents *)

\* the Named table of the fields of a record that are not Absent
NamedWith(rec) ==
    TableV(Named([c \in {FieldName[k] : k \in {x \in DOMAIN rec : rec[x] # Absent}} |->
                     rec[CHOOSE k \in DOMAIN rec : FieldName[k] = c]]))
\* a content handed over as it is, by a Deserializer other than ValueDeserializer
Content(c) == [t |-> "Content", c |-> c]

\* the keys a bins map is built from: "0", 1, "+02", and "x", which is no number
BinKeys == {String(<<48>>), IntOf(1), String(<<43, 48, 50>>), String(<<120>>)}
\* every order a map's iterator may visit them in
BinOrders == {o \in [1..Cardinality(BinKeys) -> BinKeys] : \A i, j \in DOMAIN o : o[i] = o[j] => i = j}

BinMaps ==
    { MapC([key \in {k \in BinKeys : rec[k] # Absent} |-> rec[key]]) : rec \in
        { f \in [BinKeys -> {Absent, Float(F64One), Float(F64Half), IntOf(7)}] :
            /\ f[String(<<120>>)] \in {Absent, Float(F64One)}
            /\ f[String(<<48>>)] # IntOf(7)
            /\ f[IntOf(1)] # Float(F64Half) } }
BinArrays ==
    { SeqC(<<>>), SeqC(<<Float(F64One), Float(F64Half)>>), SeqC(<<Float(F64Half), IntOf(2)>>),
      SeqC(<<Float(F64One), String(<<97>>)>>) }
BinsContents == BinMaps \cup BinArrays \cup {Nil, String(<<49>>), Absent}

SketchContents ==
    { Content(MapC([key \in {String(FieldName[k]) : k \in {x \in DOMAIN rec : rec[x] # Absent}} |->
                       rec[CHOOSE k \in DOMAIN rec : FieldName[k] = key.s]])) :
      rec \in [ outliers : {SeqC(<<Float(F64One)>>)}, bins : BinsContents,
                count : {IntOf(4)}, trivial_count : {IntOf(0)} ] }

GoodSketch ==
    NamedWith([outliers |-> TableV(Empty), count |-> IntOf(4), trivial_count |-> IntOf(0),
               bins |-> TableV(Named(Insert(Insert(EmptyMap, <<48>>, Float(F64One)),
                                            <<50>>, Float(F64Half))))])
GoodStats == NamedWith([mean |-> Float(F64One), samples |-> TableV(Empty)])
TrackerTables ==
    { NamedWith(rec) : rec \in
        [ sketch : {Absent, GoodSketch, IntOf(1)},
          stats : {Absent, GoodStats, Nil},
          top5 : {Absent, TableV(Empty), TableV(FloatArray(<<F64One>>))},
          calls : {Absent, IntOf(1)},
          commits : {IntOf(2)},
          total_time : {Float(F64Half), IntOf(3)},
          officialTime : {Absent, Nil},
          dependent : {Absent, Bool(TRUE)} ] }
SerdeInputs ==
    TrackerTables \cup SketchContents
    \cup {Nil, IntOf(1), TableV(Empty), TableV(MixedTable(<<IntOf(1)>>, EmptyMap)),
          NamedWith([sketch |-> TableV(MixedTable(<<IntOf(1)>>, EmptyMap))])}

SerdeInit == \E v \in SerdeInputs : TextIdle(v)

\* the content the derived code is given
Buffered(inp) == IF inp.t = "Content" THEN MOk(inp.c) ELSE content_of(inp)

\* T::deserialize(input), the iteration order of the maps it builds drawn
DeserializeAs(ty) ==
    /\ pc = "call"
    /\ \E ord \in BinOrders :
       \E c \in {Buffered(input)} :
           result' = [op |-> "deserialize", ty |-> ty, ord |-> ord,
                      r |-> IF c.k = "Ok" THEN de(ty, c.v, ord) ELSE c]
    /\ pc' = "returned"
    /\ UNCHANGED <<input, string_refs, table_refs, evs, started, history, overflow_checks,
                   recording>>

DeserializeTrackerData == DeserializeAs("TrackerData")
DeserializeSketchStats == DeserializeAs("SketchStats")

SerdeNext == DeserializeTrackerData \/ DeserializeSketchStats
SerdeSpec == SerdeInit /\ [][SerdeNext]_vars

Deserialized(ty) == Returned /\ result.op = "deserialize" /\ result.ty = ty
\* the input satisfies the shape of a variant: its own fields and the core
Satisfies(variant) ==
    /\ Buffered(input).k = "Ok"
    /\ de_variant(variant, Buffered(input).v, result.ord).k = "Ok"

\* C21: TrackerData is selected untagged, NewStyle (requires sketch) tried first and
\* OldStyle (requires stats and top5) only when NewStyle does not match: an input that
\* satisfies both shapes maps to NewStyle, one that satisfies only NewStyle maps to
\* NewStyle, one that satisfies only OldStyle maps to OldStyle, one that satisfies
\* neither fails.
C21_NewStyleFirst ==
    Deserialized("TrackerData") =>
        IF Satisfies("NewStyle") THEN result.r.k = "Ok" /\ result.r.v.t = "NewStyle"
        ELSE IF Satisfies("OldStyle") THEN result.r.k = "Ok" /\ result.r.v.t = "OldStyle"
        ELSE result.r.k = "Err"

\* the index each key of BinKeys that is a number stands for
Denotes == {<<String(<<48>>), 0>>, <<IntOf(1), 1>>, <<String(<<43, 48, 50>>), 2>>}
\* the bins entry of the input, when the input is a map that has one
Bins == input.c.m[String(FieldName.bins)]
HasBins ==
    /\ input.t = "Content"
    /\ input.c.t = "Map"
    /\ String(FieldName.bins) \in DOMAIN input.c.m
\* a float as it is, an integer as the float of the same number
AsFloat(c) == IF c.t = "Float" THEN c.f ELSE F64OfNat(BE(c.mag))
IsNumber(c) == c.t \in {"Float", "Int"}
\* bins is a mapping from index to float: every key is an index
SparseBins ==
    /\ Bins.t = "Map"
    /\ \A key \in DOMAIN Bins.m : (\E d \in Denotes : d[1] = key) /\ IsNumber(Bins.m[key])
PlainBins == Bins.t = "Seq" /\ \A i \in DOMAIN Bins.a : IsNumber(Bins.a[i])
Indices == {d[2] : d \in {x \in Denotes : x[1] \in DOMAIN Bins.m}}
\* the dense array claimed for a mapping
Dense ==
    [i \in 1..(IF Indices = {} THEN 0 ELSE (CHOOSE x \in Indices : \A y \in Indices : y <= x) + 1) |->
        IF i - 1 \in Indices
        THEN AsFloat(Bins.m[(CHOOSE d \in Denotes : d[2] = i - 1)[1]])
        ELSE F64Zero]

====
